---- MODULE Spec2Model ----
(***************************************************************************)
(* A model of the storage layer of xv6-rust: the buffer cache (buf.rs),    *)
(* the IDE adapter's block read/write (ide.rs), the write-ahead log        *)
(* (log.rs) and the inode / directory layer (fs.rs).                       *)
(*                                                                         *)
(* Every function of the source is a pure operator that carries the name   *)
(* of the function; the actions of the specifications apply them.  A       *)
(* block's 512 bytes are kept as the typed value the code casts them to    *)
(* (LogHeader, DInode array, bitmap, DirEnt array, bytes); a block that    *)
(* was never written is ZeroBlk, which every cast reads as zeroes.         *)
(***************************************************************************)
EXTENDS Integers, Sequences, FiniteSets, TLC

VARIABLES
    disk,       \* device 1: block number -> block contents
    cache,      \* BUF_CACHE.entries: slot -> Option<Buf>
    log,        \* LOG: start, size, outstanding, dev, lh
    bcLock,     \* holder of the BUF_CACHE mutex (0: free)
    logLock,    \* holder of the LOG mutex (0: free)
    pc,         \* position of every call path
    held,       \* the block whose BufCacheHandler a call path holds (0: none)
    cstep,      \* position inside commit(): <<phase, tail>>
    kpc,        \* position of the boot path (log_init / recover_from_log)
    panicked,   \* "" or the message of the panic that halted the kernel
    incs,       \* per begin_op call: how often it incremented outstanding
    txnW,       \* per home block: the contents last passed to log_write
    pre,        \* home contents when the current transaction started
    phase,      \* "open": before the commit point, "committed": after it
    crashPhase, \* phase at the moment of the last crash ("none": no crash)
    runs,       \* completed runs of recover_from_log since the last boot
    snap,       \* disk and header after the first run of recover_from_log
    mountDisk,  \* disk when recover_from_log started
    handles,    \* buffer-cache API: the BufCacheHandlers not yet released
    fs,         \* inode layer: the inode cache and the record of what was written
    wlog,       \* the disk writes of the commit under way, in the order made
    rw,         \* one RwLock: its lock word and the guards the call paths hold
    once,       \* one Once: its state word, its value, its callers
    files,      \* FILE_TABLE, the descriptors of the environment, the open calls
    pipe,       \* one Pipe, the build's overflow checks, what went through it
    calls       \* per call path the system call it is in; the holder of the INODE_CACHE lock

vars == <<disk, cache, log, bcLock, logLock, pc, held, cstep, kpc, panicked,
          incs, txnW, pre, phase, crashPhase, runs, snap, mountDisk, handles, fs,
          wlog, rw, once, files, pipe, calls>>

\* The kernel objects outside the storage layer
kobjs == <<rw, once, files, pipe, calls>>

\* The storage layer
storage == <<disk, cache, log, bcLock, logLock, pc, held, cstep, kpc, panicked,
             incs, txnW, pre, phase, crashPhase, runs, snap, mountDisk, handles, fs,
             wlog>>

---------------------------------------------------------------------------
(* Program constants (constants.rs, buf.rs).                               *)

BLK_SIZE == 512
MAX_OP_BLOCKS == 10
LOG_SIZE == MAX_OP_BLOCKS * 3
NBUF == MAX_OP_BLOCKS * 3
BUF_FLAGS_VALID == 2
BUF_FLAGS_DIRTY == 4
ROOT_DEV == 1
ROOT_INUM == 1
NDIRECT == 12
NINDIRECT == BLK_SIZE \div 4
MAX_FILE == NDIRECT + NINDIRECT
NINODE == 50
DIR_SIZ == 12
DINODE_SIZE == 64   \* mem::size_of::<DInode>()
DIRENT_SIZE == 16   \* mem::size_of::<DirEnt>()
IPB == BLK_SIZE \div DINODE_SIZE
BPB == BLK_SIZE * 8

(* Bounds of the model.                                                    *)
NProc == 2          \* call paths of the admission specification
NWriters == 1       \* call paths of the crash specification
NHome == 2          \* home blocks the call paths write
MaxVal == 2         \* distinct contents a call path writes
MaxIncs == 2        \* the per-call increment counter saturates here
NDevs == 2          \* devices used against the bare cache API
NKeyBlocks == 2     \* block numbers used against the bare cache API
MaxHandles == 3     \* handles outstanding against the bare cache API
MaxOps == 3         \* inode-layer calls of the file-system call path
MaxWrite == 600     \* bytes of the longest writei
MaxRefs == 2        \* handles to one inode a call path holds

Procs == 1..NProc
Min(S) == CHOOSE x \in S : \A y \in S : x <= y
Max(S) == CHOOSE x \in S : \A y \in S : x >= y

\* B applied to the value of e (e is evaluated once, like a `let` of the source).
Bind(e, B(_)) == CHOOSE y \in {B(v) : v \in {e}} : TRUE
\* The same for a machine state: after a panic B does not run.
AndThen(e, B(_)) == CHOOSE y \in {IF v.panic # "" THEN v ELSE B(v) : v \in {e}} : TRUE

---------------------------------------------------------------------------
(* Block contents.                                                         *)

ZeroBlk == [k |-> "zero"]
Raw(v) == [k |-> "raw", v |-> v]

\* The header block cast to LogHeader (log.rs:13-16).
ZeroHeader == [n |-> 0, block |-> [i \in 0..(LOG_SIZE - 1) |-> 0]]
LogHeader(data) ==
    CASE data.k = "zero" -> ZeroHeader
      [] data.k = "hdr" -> [n |-> data.n, block |-> data.block]
HeaderBlk(h) ==
    IF h = ZeroHeader THEN ZeroBlk ELSE [k |-> "hdr", n |-> h.n, block |-> h.block]

\* The superblock the image was formatted with (block 1), cast to SuperBlock.
SB == [size |-> 64, nblocks |-> 30, ninodes |-> 8, nlog |-> LOG_SIZE,
       log_start |-> 2, inode_start |-> 32, bmap_start |-> 33]
SuperBlk == [k |-> "sb", sb |-> SB]
SuperBlock(data) ==
    CASE data.k = "sb" -> data.sb
      [] data.k = "zero" -> [size |-> 0, nblocks |-> 0, ninodes |-> 0, nlog |-> 0,
                             log_start |-> 0, inode_start |-> 0, bmap_start |-> 0]

BlockNos == 0..(SB.size - 1)
LogRegion == SB.log_start..(SB.log_start + SB.nlog - 1)
HomeBlocks == SB.inode_start..(SB.inode_start + NHome - 1)

---------------------------------------------------------------------------
(* Buffer cache (buf.rs) and the disk adapter (ide.rs).                    *)

HasFlag(flags, f) == (flags \div f) % 2 = 1
SetFlag(flags, f) == IF HasFlag(flags, f) THEN flags ELSE flags + f

Slots == 0..(NBUF - 1)
None == [some |-> FALSE, dev |-> 0, blockno |-> 0, flags |-> 0, refcnt |-> 0,
         data |-> ZeroBlk]
\* Buf::new()
Buf_new == [some |-> TRUE, dev |-> 0, blockno |-> 0, flags |-> 0, refcnt |-> 0,
            data |-> ZeroBlk]
\* BufCache::new()
BufCache_new == [i \in Slots |-> None]

Matches(c, dev, blockno) ==
    {i \in Slots : c[i].some /\ c[i].dev = dev /\ c[i].blockno = blockno}
Empties(c) == {i \in Slots : ~c[i].some}

\* A get that claims the first empty slot it meets without scanning on.
get_firstEmpty(c, dev, blockno) ==
    LET m == Matches(c, dev, blockno)
        e == Empties(c)
    IN  IF e # {} /\ (m = {} \/ Min(e) < Min(m))
        THEN [cache |-> [c EXCEPT ![Min(e)] =
                            [Buf_new EXCEPT !.dev = dev, !.blockno = blockno,
                                            !.flags = 0, !.refcnt = 1]],
              slot |-> Min(e), panic |-> ""]
        ELSE IF m # {}
        THEN [cache |-> [c EXCEPT ![Min(m)].refcnt = @ + 1],
              slot |-> Min(m), panic |-> ""]
        ELSE [cache |-> c, slot |-> 0, panic |-> "get: no buffers"]

\* BufCache::get: the scan returns at the first entry with the key; without
\* one, the slot claimed is the last empty one the scan passed.
get(c, dev, blockno) ==
    LET m == Matches(c, dev, blockno)
        e == Empties(c)
    IN  IF m # {}
        THEN [cache |-> [c EXCEPT ![Min(m)].refcnt = @ + 1],
              slot |-> Min(m), panic |-> ""]
        ELSE IF e = {}
        THEN [cache |-> c, slot |-> 0, panic |-> "get: no buffers"]
        ELSE [cache |-> [c EXCEPT ![Max(e)] =
                            [Buf_new EXCEPT !.dev = dev, !.blockno = blockno,
                                            !.flags = 0, !.refcnt = 1]],
              slot |-> Max(e), panic |-> ""]

\* A release that leaves the entry in its slot when refcnt reaches zero.
release_keepSlot(c, dev, blockno) ==
    LET m == Matches(c, dev, blockno)
    IN  IF m = {}
        THEN [cache |-> c, panic |-> "release: illegal dev or blockno"]
        ELSE [cache |-> [c EXCEPT ![Min(m)].refcnt = @ - 1], panic |-> ""]

\* BufCache::release: the entry is dropped as soon as refcnt reaches zero.
release(c, dev, blockno) ==
    LET m == Matches(c, dev, blockno)
    IN  IF m = {}
        THEN [cache |-> c, panic |-> "release: illegal dev or blockno"]
        ELSE LET i == Min(m)
             IN  [cache |-> IF c[i].refcnt = 1
                            THEN [c EXCEPT ![i] = None]
                            ELSE [c EXCEPT ![i].refcnt = @ - 1],
                  panic |-> ""]

\* ide_rw: a dirty buffer is written, any other is read; then VALID, not DIRTY.
ide_rw(b, d) ==
    IF HasFlag(b.flags, BUF_FLAGS_VALID) /\ ~HasFlag(b.flags, BUF_FLAGS_DIRTY)
    THEN [buf |-> b, disk |-> d, panic |-> "ide_rw: nothing to do"]
    ELSE IF HasFlag(b.flags, BUF_FLAGS_DIRTY)
    THEN [buf |-> [b EXCEPT !.flags = BUF_FLAGS_VALID],
          disk |-> [d EXCEPT ![b.blockno] = b.data], panic |-> ""]
    ELSE [buf |-> [b EXCEPT !.flags = SetFlag(@, BUF_FLAGS_VALID),
                            !.data = d[b.blockno]],
          disk |-> d, panic |-> ""]

\* BufCacheHandler::make_dirty
make_dirty(b) == [b EXCEPT !.flags = SetFlag(@, BUF_FLAGS_DIRTY)]

\* BufCacheHandler::read on the buffer in slot i
read(c, d, i) ==
    IF ~HasFlag(c[i].flags, BUF_FLAGS_VALID)
    THEN Bind(ide_rw(c[i], d), LAMBDA r :
            [cache |-> [c EXCEPT ![i] = r.buf], disk |-> r.disk, panic |-> r.panic])
    ELSE [cache |-> c, disk |-> d, panic |-> ""]

\* BufCacheHandler::write on the buffer in slot i
write(c, d, i) ==
    Bind(ide_rw(make_dirty(c[i]), d), LAMBDA r :
        [cache |-> [c EXCEPT ![i] = r.buf], disk |-> r.disk, panic |-> r.panic])

---------------------------------------------------------------------------
(* Write-ahead log (log.rs).                                               *)

FirstPanic(ps) ==
    LET bad == {i \in 1..Len(ps) : ps[i] # ""}
    IN  IF bad = {} THEN "" ELSE ps[Min(bad)]

\* Log::empty()
Log_empty == [start |-> 0, size |-> 0, outstanding |-> 0, dev |-> 0, lh |-> ZeroHeader]

\* A begin_op whose test leaves out the operation being admitted.
begin_op_noReserve(l) ==
    IF l.lh.n + l.outstanding * MAX_OP_BLOCKS > LOG_SIZE
    THEN l
    ELSE [l EXCEPT !.outstanding = @ + 1]

\* One pass of begin_op's loop, under the LOG lock: `continue` when the log
\* might overflow, else the increment.  The loop has no exit.
begin_op(l) ==
    IF l.lh.n + (l.outstanding + 1) * MAX_OP_BLOCKS > LOG_SIZE
    THEN l
    ELSE [l EXCEPT !.outstanding = @ + 1]

\* The body of the loops of write_log and install_trans: one block copied
\* through the cache and written to disk.
CopyBlock(c, d, dev, to, from) ==
    Bind(get(c, dev, to), LAMBDA g1 :
    Bind(read(g1.cache, d, g1.slot), LAMBDA r1 :
    Bind(get(r1.cache, dev, from), LAMBDA g2 :
    Bind(read(g2.cache, r1.disk, g2.slot), LAMBDA r2 :
    Bind([r2.cache EXCEPT ![g1.slot].data = r2.cache[g2.slot].data], LAMBDA c3 :
    Bind(write(c3, r2.disk, g1.slot), LAMBDA w :
    Bind(release(w.cache, dev, from), LAMBDA l1 :
    Bind(release(l1.cache, dev, to), LAMBDA l2 :
        [cache |-> l2.cache, disk |-> w.disk,
         panic |-> FirstPanic(<<g1.panic, r1.panic, g2.panic, r2.panic,
                                w.panic, l1.panic, l2.panic>>)]))))))))

\* write_log, pass `tail` of its loop
write_log_pass(c, d, l, tail) ==
    CopyBlock(c, d, l.dev, l.start + tail + 1, l.lh.block[tail])

\* install_trans, pass `tail` of its loop
install_trans_pass(c, d, l, tail) ==
    CopyBlock(c, d, l.dev, l.lh.block[tail], l.start + tail + 1)

\* install_trans with its loop running for tail in 0..(n - 1)
install_trans_loop(c, d, l, n) ==
    LET after[t \in 0..n] ==
            IF t = 0
            THEN [cache |-> c, disk |-> d, panic |-> ""]
            ELSE Bind(after[t - 1], LAMBDA a :
                 Bind(install_trans_pass(a.cache, a.disk, l, t - 1), LAMBDA r :
                     [cache |-> r.cache, disk |-> r.disk,
                      panic |-> FirstPanic(<<a.panic, r.panic>>)]))
    IN  after[n]

\* An install_trans whose loop runs one pass too many.
install_trans_oneMore(c, d, l) == install_trans_loop(c, d, l, l.lh.n + 1)

\* install_trans
install_trans(c, d, l) == install_trans_loop(c, d, l, l.lh.n)

\* The header block after write_head's assignments: the count and the first
\* n block numbers of the in-memory header; the rest stays.
write_head_data(old, lh) ==
    HeaderBlk([n |-> lh.n,
               block |-> [i \in 0..(LOG_SIZE - 1) |->
                             IF i < lh.n THEN lh.block[i] ELSE old.block[i]]])

\* write_head
write_head(c, d, l) ==
    Bind(get(c, l.dev, l.start), LAMBDA g :
    Bind(read(g.cache, d, g.slot), LAMBDA r :
    Bind([r.cache EXCEPT ![g.slot].data =
              write_head_data(LogHeader(r.cache[g.slot].data), l.lh)], LAMBDA c2 :
    Bind(write(c2, r.disk, g.slot), LAMBDA w :
    Bind(release(w.cache, l.dev, l.start), LAMBDA e :
        [cache |-> e.cache, disk |-> w.disk,
         panic |-> FirstPanic(<<g.panic, r.panic, w.panic, e.panic>>)])))))

\* read_head: the header is taken from the buffer get returned; the buffer is
\* not read from disk first.
read_head(c, d, l) ==
    Bind(get(c, l.dev, l.start), LAMBDA g :
    Bind(release(g.cache, l.dev, l.start), LAMBDA e :
        [cache |-> e.cache,
         log |-> [l EXCEPT !.lh = LogHeader(g.cache[g.slot].data)],
         panic |-> FirstPanic(<<g.panic, e.panic>>)]))

\* The header after log_write's scan for blockno and its append.
log_write_record_noDedup(l, blockno) ==
    [l EXCEPT !.lh.block[l.lh.n] = blockno, !.lh.n = @ + 1]

log_write_record(l, blockno) ==
    LET found == {j \in 0..(l.lh.n - 1) : l.lh.block[j] = blockno}
    IN  IF found # {}
        THEN l
        ELSE [l EXCEPT !.lh.block[l.lh.n] = blockno, !.lh.n = @ + 1]

\* A log_write that never finds the transaction too big.
log_write_noLimit(c, d, l, i) ==
    IF l.outstanding < 1
    THEN [cache |-> c, disk |-> d, log |-> l, panic |-> "log_write outside of trans"]
    ELSE [cache |-> [c EXCEPT ![i] = make_dirty(c[i])], disk |-> d,
          log |-> log_write_record(l, c[i].blockno), panic |-> ""]

\* A log_write that writes the buffer to its home block at once.
log_write_through(c, d, l, i) ==
    IF l.lh.n >= LOG_SIZE \/ l.lh.n >= l.size - 1
    THEN [cache |-> c, disk |-> d, log |-> l, panic |-> "too big a transaction"]
    ELSE IF l.outstanding < 1
    THEN [cache |-> c, disk |-> d, log |-> l, panic |-> "log_write outside of trans"]
    ELSE Bind(write(c, d, i), LAMBDA w :
             [cache |-> w.cache, disk |-> w.disk,
              log |-> log_write_record(l, c[i].blockno), panic |-> w.panic])

\* log_write on the buffer in slot i
log_write(c, d, l, i) ==
    IF l.lh.n >= LOG_SIZE \/ l.lh.n >= l.size - 1
    THEN [cache |-> c, disk |-> d, log |-> l, panic |-> "too big a transaction"]
    ELSE IF l.outstanding < 1
    THEN [cache |-> c, disk |-> d, log |-> l, panic |-> "log_write outside of trans"]
    ELSE [cache |-> [c EXCEPT ![i] = make_dirty(c[i])], disk |-> d,
          log |-> log_write_record(l, c[i].blockno), panic |-> ""]

\* read_sb (log.rs) followed by the assignments of log_init
log_init(c, d, l, dev) ==
    Bind(get(c, dev, 1), LAMBDA g :
    Bind(read(g.cache, d, g.slot), LAMBDA r :
    Bind(release(r.cache, dev, 1), LAMBDA e :
        [cache |-> e.cache,
         log |-> [l EXCEPT !.start = SuperBlock(r.cache[g.slot].data).log_start,
                           !.size = SuperBlock(r.cache[g.slot].data).nlog,
                           !.dev = dev],
         panic |-> FirstPanic(<<g.panic, r.panic, e.panic>>)])))

---------------------------------------------------------------------------
(* Inode layer (fs.rs): blocks as the types the code casts them to.        *)

InodeTypes == {"Empty", "Dir", "File", "Dev"}
Inums == 0..(SB.ninodes - 1)
NoAddrs == [i \in 0..NDIRECT |-> 0]

\* A data block as its BLK_SIZE bytes.
Bytes0 == [i \in 0..(BLK_SIZE - 1) |-> 0]
Bytes(data) ==
    CASE data.k = "zero" -> Bytes0
      [] data.k = "bytes" -> data.b
BytesBlk(b) == IF b = Bytes0 THEN ZeroBlk ELSE [k |-> "bytes", b |-> b]

\* An inode block as its IPB DInodes (ref_to_inode's cast).
DInode_zero == [typ |-> "Empty", major |-> 0, minor |-> 0, nlink |-> 0, size |-> 0,
                addrs |-> NoAddrs]
DInodes(data) ==
    CASE data.k = "zero" -> [i \in 0..(IPB - 1) |-> DInode_zero]
      [] data.k = "inodes" -> data.din
InodeBlk(din) ==
    IF din = [i \in 0..(IPB - 1) |-> DInode_zero] THEN ZeroBlk
    ELSE [k |-> "inodes", din |-> din]

\* The bitmap block as the set of block numbers whose bit is set.
Bitmap(data) ==
    CASE data.k = "zero" -> {}
      [] data.k = "bitmap" -> data.used
BitmapBlk(used) == IF used = {} THEN ZeroBlk ELSE [k |-> "bitmap", used |-> used]

\* The u32 at byte o of a block (a cast to *const u32, little-endian).
le_u32(b, o) == b[o] + 256 * b[o + 1] + 65536 * b[o + 2] + 16777216 * b[o + 3]

\* DirEnt: inum as a little-endian u32, then DIR_SIZ bytes of name.
NoName == [i \in 0..(DIR_SIZ - 1) |-> 0]
DirEnt_empty == [inum |-> 0, name |-> NoName]
DirEnt(b, o) ==
    [inum |-> b[o] + 256 * b[o + 1] + 65536 * b[o + 2] + 16777216 * b[o + 3],
     name |-> [i \in 0..(DIR_SIZ - 1) |-> b[o + 4 + i]]]
as_u8_ptr(ent) ==
    [i \in 0..(DIRENT_SIZE - 1) |->
        IF i = 0 THEN ent.inum % 256
        ELSE IF i = 1 THEN (ent.inum \div 256) % 256
        ELSE IF i = 2 THEN (ent.inum \div 65536) % 256
        ELSE IF i = 3 THEN (ent.inum \div 16777216) % 256
        ELSE ent.name[i - 4]]

\* util::strncmp over two buffers of at least n bytes
strncmp(s1, s2, n) ==
    LET stop == {i \in 0..(n - 1) : (s1[i] = 0 /\ s2[i] = 0) \/ s1[i] # s2[i]}
    IN  IF stop = {} THEN 0
        ELSE IF s1[Min(stop)] > s2[Min(stop)] THEN 1
        ELSE IF s1[Min(stop)] < s2[Min(stop)] THEN -1
        ELSE 0

\* A name buffer of DIR_SIZ bytes holding the characters cs, NUL padded.
NameBuf(cs) == [i \in 0..(DIR_SIZ - 1) |-> IF i < Len(cs) THEN cs[i + 1] ELSE 0]

\* The in-memory inode (struct Inode); `some` tells a cache entry exists.
NoInode == [some |-> FALSE, dev |-> 0, inum |-> 0, valid |-> FALSE, typ |-> "Empty",
            major |-> 0, minor |-> 0, nlink |-> 0, size |-> 0, addrs |-> NoAddrs]
\* Inode::empty(dev, inum)
Inode_empty(dev, inum) ==
    [some |-> TRUE, dev |-> dev, inum |-> inum, valid |-> FALSE, typ |-> "Empty",
     major |-> 0, minor |-> 0, nlink |-> 0, size |-> 0, addrs |-> NoAddrs]

block_for_inode(inum) == inum \div IPB + SB.inode_start
block_for_bitmap(blockno) == blockno \div BPB + SB.bmap_start

---------------------------------------------------------------------------
(* The functions of fs.rs thread the machine state s = [cache, disk, log,  *)
(* ic, icn, panic, ret, cwd, ev]: ic is INODE_CACHE.inodes, icn its counter *)
(* n, ret the value the function returns, cwd the current directory of the *)
(* calling environment, ev the inode locks taken and dropped so far.       *)
(* After a panic nothing more runs.                                        *)

Halt(s, msg) == [s EXCEPT !.panic = IF @ = "" THEN msg ELSE @]

\* bcache.get(dev, b) and bp.read(); ret is the buffer's slot
get_read(s, b) ==
    Bind(get(s.cache, ROOT_DEV, b), LAMBDA g :
        IF g.panic # "" THEN Halt(s, g.panic)
        ELSE Bind(read(g.cache, s.disk, g.slot), LAMBDA r :
                 [s EXCEPT !.cache = r.cache, !.disk = r.disk, !.panic = r.panic,
                           !.ret = g.slot]))

\* log::log_write(&mut bp) on the buffer in slot i
fs_log_write(s, i) ==
    Bind(log_write(s.cache, s.disk, s.log, i), LAMBDA w :
        [s EXCEPT !.cache = w.cache, !.disk = w.disk, !.log = w.log, !.panic = w.panic])

\* bcache.release(bp) of block b
fs_release(s, b) ==
    Bind(release(s.cache, ROOT_DEV, b), LAMBDA e :
        [s EXCEPT !.cache = e.cache, !.panic = e.panic])

\* iget: the cache entry for inum, created when absent
iget(s, inum) ==
    IF s.ic[inum].some THEN [s EXCEPT !.ret = inum]
    ELSE IF s.icn >= NINODE THEN Halt(s, "iget: no inodes")
    ELSE [s EXCEPT !.ic[inum] = Inode_empty(ROOT_DEV, inum), !.icn = @ + 1, !.ret = inum]

\* iupdate(inode)
iupdate(s, inode) ==
    AndThen(get_read(s, block_for_inode(inode.inum)), LAMBDA t :
    AndThen(fs_log_write(
            [t EXCEPT !.cache[t.ret].data =
                InodeBlk([DInodes(@) EXCEPT ![inode.inum % IPB] =
                    [typ |-> inode.typ, major |-> inode.major, minor |-> inode.minor,
                     nlink |-> inode.nlink, size |-> inode.size,
                     addrs |-> inode.addrs]])], t.ret), LAMBDA w :
    fs_release(w, block_for_inode(inode.inum))))

\* ilock without the test of the type it loaded
ilock_anyType(s, inum) ==
    IF s.ic[inum].valid THEN s
    ELSE AndThen(get_read(s, block_for_inode(inum)), LAMBDA t :
         Bind(DInodes(t.cache[t.ret].data)[inum % IPB], LAMBDA d :
             fs_release([t EXCEPT !.ic[inum] =
                            [@ EXCEPT !.typ = d.typ, !.major = d.major,
                                      !.minor = d.minor, !.nlink = d.nlink,
                                      !.size = d.size, !.addrs = d.addrs,
                                      !.valid = TRUE]],
                        block_for_inode(inum))))

\* ilock on the cache entry of inum: loaded from disk unless valid
ilock(s, inum) ==
    IF s.ic[inum].valid THEN s
    ELSE AndThen(get_read(s, block_for_inode(inum)), LAMBDA t :
         Bind(DInodes(t.cache[t.ret].data)[inum % IPB], LAMBDA d :
         AndThen(fs_release([t EXCEPT !.ic[inum] =
                            [@ EXCEPT !.typ = d.typ, !.major = d.major,
                                      !.minor = d.minor, !.nlink = d.nlink,
                                      !.size = d.size, !.addrs = d.addrs,
                                      !.valid = TRUE]],
                        block_for_inode(inum)), LAMBDA u :
             IF d.typ = "Empty" THEN Halt(u, "ilock: no type") ELSE u)))

\* bzero: the buffer is taken without a read, zeroed and released
bzero(s, blockno) ==
    Bind(get(s.cache, ROOT_DEV, blockno), LAMBDA g :
        IF g.panic # "" THEN Halt(s, g.panic)
        ELSE fs_release([s EXCEPT !.cache = [g.cache EXCEPT ![g.slot].data = ZeroBlk]],
                        blockno))

\* balloc: with sb.size <= BPB the first pass of the outer loop tests every
\* bit, so the block returned is the lowest one whose bit is clear.
balloc(s) ==
    AndThen(get_read(s, block_for_bitmap(0)), LAMBDA t :
    Bind({x \in 0..(SB.size - 1) : x \notin Bitmap(t.cache[t.ret].data)}, LAMBDA free :
        IF free = {}
        THEN Halt(fs_release(t, block_for_bitmap(0)), "balloc: out of blocks")
        ELSE AndThen(fs_log_write(
                     [t EXCEPT !.cache[t.ret].data =
                         BitmapBlk(Bitmap(@) \cup {Min(free)})], t.ret), LAMBDA w :
             AndThen(fs_release(w, block_for_bitmap(0)), LAMBDA u :
             AndThen(bzero(u, Min(free)), LAMBDA z :
                 [z EXCEPT !.ret = Min(free)])))))

\* Inode::block_for on the inode of inum.  An entry of the indirect block
\* is the little-endian u32 at byte 4 * (bn - NDIRECT) of its data; the
\* second balloc runs while the buffer of the indirect block is held.
block_for(s, inum, off) ==
    IF off \div BLK_SIZE < NDIRECT
    THEN IF s.ic[inum].addrs[off \div BLK_SIZE] = 0
         THEN AndThen(balloc(s), LAMBDA t :
                  [t EXCEPT !.ic[inum].addrs[off \div BLK_SIZE] = t.ret])
         ELSE [s EXCEPT !.ret = s.ic[inum].addrs[off \div BLK_SIZE]]
    ELSE IF off \div BLK_SIZE - NDIRECT < NINDIRECT
    THEN Bind(4 * (off \div BLK_SIZE - NDIRECT), LAMBDA o :
         AndThen(IF s.ic[inum].addrs[NDIRECT] = 0
                 THEN AndThen(balloc(s), LAMBDA t :
                          [t EXCEPT !.ic[inum].addrs[NDIRECT] = t.ret])
                 ELSE s, LAMBDA a :
         AndThen(get_read(a, a.ic[inum].addrs[NDIRECT]), LAMBDA g :
         AndThen(IF le_u32(Bytes(g.cache[g.ret].data), o) = 0
                 THEN AndThen(balloc(g), LAMBDA b :
                          fs_log_write(
                              [b EXCEPT !.cache[g.ret].data =
                                  BytesBlk([i \in 0..(BLK_SIZE - 1) |->
                                      IF i >= o /\ i < o + 4
                                      THEN (b.ret \div (256 ^ (i - o))) % 256
                                      ELSE Bytes(@)[i]])], g.ret))
                 ELSE g, LAMBDA w :
         AndThen(fs_release(w, a.ic[inum].addrs[NDIRECT]), LAMBDA r :
             [r EXCEPT !.ret = le_u32(Bytes(w.cache[g.ret].data), o)])))))
    ELSE Halt(s, "addr_for: out of range")

\* readi without the clamp of n to the size of the file
readi_noClamp(s, inum, off, n) ==
    IF off > s.ic[inum].size THEN Halt(s, "readi: illegal offset")
    ELSE Bind(n, LAMBDA n1 :
         LET pass[k \in 0..(n1 \div BLK_SIZE + 2)] ==
                 IF k = 0
                 THEN [s EXCEPT !.ret = [tot |-> 0, off |-> off,
                                         dst |-> [i \in 0..(n - 1) |-> 0]]]
                 ELSE AndThen(pass[k - 1], LAMBDA a :
                      IF a.ret.tot >= n1 THEN a
                      ELSE AndThen(block_for(a, inum, a.ret.off), LAMBDA t :
                           AndThen(get_read(t, t.ret), LAMBDA u :
                           Bind(Min({n1 - a.ret.tot,
                                     BLK_SIZE - (a.ret.off % BLK_SIZE)}), LAMBDA m :
                           Bind(Bytes(u.cache[u.ret].data), LAMBDA src :
                           AndThen(fs_release(u, t.ret), LAMBDA v :
                               [v EXCEPT !.ret =
                                   [tot |-> a.ret.tot + m, off |-> a.ret.off + m,
                                    dst |-> [i \in 0..(n - 1) |->
                                        IF i >= a.ret.tot /\ i < a.ret.tot + m
                                        THEN src[(a.ret.off % BLK_SIZE) + (i - a.ret.tot)]
                                        ELSE a.ret.dst[i]]]]))))))
         IN  AndThen(pass[n1 \div BLK_SIZE + 2], LAMBDA z :
                 [z EXCEPT !.ret = [n |-> n1, dst |-> z.ret.dst]]))

\* readi on the inode of inum (a Dir or File inode); ret is [n, dst]
readi(s, inum, off, n) ==
    IF off > s.ic[inum].size THEN Halt(s, "readi: illegal offset")
    ELSE Bind(IF off + n > s.ic[inum].size THEN s.ic[inum].size - off ELSE n, LAMBDA n1 :
         LET pass[k \in 0..(n1 \div BLK_SIZE + 2)] ==
                 IF k = 0
                 THEN [s EXCEPT !.ret = [tot |-> 0, off |-> off,
                                         dst |-> [i \in 0..(n - 1) |-> 0]]]
                 ELSE AndThen(pass[k - 1], LAMBDA a :
                      IF a.ret.tot >= n1 THEN a
                      ELSE AndThen(block_for(a, inum, a.ret.off), LAMBDA t :
                           AndThen(get_read(t, t.ret), LAMBDA u :
                           Bind(Min({n1 - a.ret.tot,
                                     BLK_SIZE - (a.ret.off % BLK_SIZE)}), LAMBDA m :
                           Bind(Bytes(u.cache[u.ret].data), LAMBDA src :
                           AndThen(fs_release(u, t.ret), LAMBDA v :
                               [v EXCEPT !.ret =
                                   [tot |-> a.ret.tot + m, off |-> a.ret.off + m,
                                    dst |-> [i \in 0..(n - 1) |->
                                        IF i >= a.ret.tot /\ i < a.ret.tot + m
                                        THEN src[(a.ret.off % BLK_SIZE) + (i - a.ret.tot)]
                                        ELSE a.ret.dst[i]]]]))))))
         IN  AndThen(pass[n1 \div BLK_SIZE + 2], LAMBDA z :
                 [z EXCEPT !.ret = [n |-> n1, dst |-> z.ret.dst]]))

\* writei on the inode of inum (a Dir or File inode); ret is n
writei(s, inum, src, off, n) ==
    IF off > s.ic[inum].size THEN Halt(s, "writei: illegal offset")
    ELSE IF off + n > MAX_FILE * BLK_SIZE THEN Halt(s, "writei: too large offset")
    ELSE LET pass[k \in 0..(n \div BLK_SIZE + 2)] ==
                 IF k = 0
                 THEN [s EXCEPT !.ret = [tot |-> 0, off |-> off]]
                 ELSE AndThen(pass[k - 1], LAMBDA a :
                      IF a.ret.tot >= n THEN a
                      ELSE AndThen(block_for(a, inum, a.ret.off), LAMBDA t :
                           AndThen(get_read(t, t.ret), LAMBDA u :
                           Bind(Min({n - a.ret.tot,
                                     BLK_SIZE - (a.ret.off % BLK_SIZE)}), LAMBDA m :
                           AndThen(fs_log_write(
                               [u EXCEPT !.cache[u.ret].data =
                                   BytesBlk([i \in 0..(BLK_SIZE - 1) |->
                                       IF i >= (a.ret.off % BLK_SIZE)
                                          /\ i < (a.ret.off % BLK_SIZE) + m
                                       THEN src[a.ret.tot + i - (a.ret.off % BLK_SIZE)]
                                       ELSE Bytes(@)[i]])], u.ret), LAMBDA w :
                           AndThen(fs_release(w, t.ret), LAMBDA v :
                               [v EXCEPT !.ret = [tot |-> a.ret.tot + m,
                                                  off |-> a.ret.off + m]]))))))
         IN  AndThen(pass[n \div BLK_SIZE + 2], LAMBDA z :
                 IF n > 0 /\ z.ret.off > z.ic[inum].size
                 THEN AndThen(iupdate([z EXCEPT !.ic[inum].size = z.ret.off],
                                      [z.ic[inum] EXCEPT !.size = z.ret.off]), LAMBDA y :
                          [y EXCEPT !.ret = n])
                 ELSE [z EXCEPT !.ret = n])

\* The number of passes of `while off < dir.size` with off += DIRENT_SIZE
DirSlots(size) == (size + DIRENT_SIZE - 1) \div DIRENT_SIZE

\* dir_lookup_with_name; ret is [ip, off], ip = 0 for None
dir_lookup_with_name(s, dinum, name) ==
    IF s.ic[dinum].typ # "Dir" THEN Halt(s, "dir_lookup: inode is not dir")
    ELSE LET scan[k \in 0..DirSlots(s.ic[dinum].size)] ==
                 IF k = 0
                 THEN [s EXCEPT !.ret = [ip |-> 0, off |-> 0, done |-> FALSE]]
                 ELSE AndThen(scan[k - 1], LAMBDA a :
                      IF a.ret.done THEN a
                      ELSE AndThen(readi(a, dinum, a.ret.off, DIRENT_SIZE), LAMBDA r :
                           IF r.ret.n # DIRENT_SIZE
                           THEN Halt(r, "dir_lookup: failed to readi")
                           ELSE Bind(DirEnt(r.ret.dst, 0), LAMBDA ent :
                                IF ent.inum # 0 /\ strncmp(name, ent.name, DIR_SIZ) = 0
                                THEN AndThen(iget(r, ent.inum), LAMBDA g :
                                         [g EXCEPT !.ret = [ip |-> ent.inum,
                                                            off |-> a.ret.off,
                                                            done |-> TRUE]])
                                ELSE [r EXCEPT !.ret = [ip |-> 0,
                                                        off |-> a.ret.off + DIRENT_SIZE,
                                                        done |-> FALSE]])))
         IN  scan[DirSlots(s.ic[dinum].size)]

\* dir_link; ret is [ok, off], off the offset handed to writei
dir_link(s, dinum, name, inum) ==
    AndThen(dir_lookup_with_name(s, dinum, name), LAMBDA t :
        IF t.ret.ip # 0 THEN [t EXCEPT !.ret = [ok |-> FALSE, off |-> 0]]
        ELSE LET scan[k \in 0..DirSlots(t.ic[dinum].size)] ==
                     IF k = 0
                     THEN [t EXCEPT !.ret = [off |-> 0, done |-> FALSE]]
                     ELSE AndThen(scan[k - 1], LAMBDA a :
                          IF a.ret.done THEN a
                          ELSE AndThen(readi(a, dinum, a.ret.off, DIRENT_SIZE), LAMBDA r :
                               IF r.ret.n # DIRENT_SIZE
                               THEN Halt(r, "dir_link: failed to readi")
                               ELSE IF DirEnt(r.ret.dst, 0).inum = 0
                               THEN [r EXCEPT !.ret = [off |-> a.ret.off, done |-> TRUE]]
                               ELSE [r EXCEPT !.ret = [off |-> a.ret.off + DIRENT_SIZE,
                                                       done |-> FALSE]]))
             IN  AndThen(scan[DirSlots(t.ic[dinum].size)], LAMBDA f :
                 AndThen(writei(f, dinum, as_u8_ptr([inum |-> inum, name |-> name]),
                                f.ret.off, DIRENT_SIZE), LAMBDA w :
                     IF w.ret # DIRENT_SIZE THEN Halt(w, "dir_link: failed to writei")
                     ELSE [w EXCEPT !.ret = [ok |-> TRUE, off |-> f.ret.off]])))

\* bfree: the bit of blockno is tested, cleared through log_write, released
bfree(s, blockno) ==
    AndThen(get_read(s, block_for_bitmap(blockno)), LAMBDA t :
        IF (blockno % BPB) \notin Bitmap(t.cache[t.ret].data)
        THEN Halt(t, "bfree: freeing free block")
        ELSE AndThen(fs_log_write(
                     [t EXCEPT !.cache[t.ret].data =
                         BitmapBlk(Bitmap(@) \ {blockno % BPB})], t.ret), LAMBDA w :
             fs_release(w, block_for_bitmap(blockno))))

\* itrunc on the inode of inum.  The inodes of the model have no indirect
\* block (addrs[NDIRECT] = 0), so only the loop over the direct blocks runs.
itrunc(s, inum) ==
    LET pass[k \in 0..NDIRECT] ==
            IF k = 0 THEN s
            ELSE AndThen(pass[k - 1], LAMBDA a :
                     IF a.ic[inum].addrs[k - 1] > 0
                     THEN AndThen(bfree(a, a.ic[inum].addrs[k - 1]), LAMBDA b :
                              [b EXCEPT !.ic[inum].addrs[k - 1] = 0])
                     ELSE a)
    IN  AndThen(pass[NDIRECT], LAMBDA z :
            iupdate([z EXCEPT !.ic[inum].size = 0], [z.ic[inum] EXCEPT !.size = 0]))

\* iput on a handle to the cache entry of inum: the test looks at valid and
\* nlink only; icache.remove takes the entry out and leaves the counter n.
iput(s, inum) ==
    IF s.ic[inum].valid /\ s.ic[inum].nlink = 0
    THEN AndThen(itrunc(s, inum), LAMBDA t :
         AndThen(iupdate([t EXCEPT !.ic[inum].typ = "Empty"],
                         [t.ic[inum] EXCEPT !.typ = "Empty"]), LAMBDA u :
             [u EXCEPT !.ic[inum] = NoInode]))
    ELSE s

\* A path is the sequence of its characters up to the NUL; 47 is '/'.
DropSlashes(path) ==
    LET rest == {i \in 1..Len(path) : path[i] # 47}
    IN  IF rest = {} THEN <<>> ELSE SubSeq(path, Min(rest), Len(path))

\* skip_elem that steps over one '/' after the element instead of all
skip_elem_oneSlash(path, name) ==
    LET p == DropSlashes(path)
        ends == {i \in 1..Len(p) : p[i] = 47}
        len == IF ends = {} THEN Len(p) ELSE Min(ends) - 1
    IN  IF p = <<>> THEN [null |-> TRUE, path |-> <<>>, name |-> name]
        ELSE [null |-> FALSE,
              path |-> SubSeq(p, len + 2, Len(p)),
              name |-> [i \in 0..(DIR_SIZ - 1) |->
                           IF len >= DIR_SIZ \/ i < len THEN p[i + 1]
                           ELSE IF i = len THEN 0
                           ELSE name[i]]]

\* skip_elem: [null, path, name]; null when no element is left
skip_elem(path, name) ==
    LET p == DropSlashes(path)
        ends == {i \in 1..Len(p) : p[i] = 47}
        len == IF ends = {} THEN Len(p) ELSE Min(ends) - 1
    IN  IF p = <<>> THEN [null |-> TRUE, path |-> <<>>, name |-> name]
        ELSE [null |-> FALSE,
              path |-> DropSlashes(SubSeq(p, len + 1, Len(p))),
              name |-> [i \in 0..(DIR_SIZ - 1) |->
                           IF len >= DIR_SIZ \/ i < len THEN p[i + 1]
                           ELSE IF i = len THEN 0
                           ELSE name[i]]]

\* Taking (ilock, iput) and dropping (iunlock, end of iput) the write guard
\* of an inode's RwLock, appended to the record of lock events s.ev
guard(s, kind, inum) == [s EXCEPT !.ev = Append(@, <<kind, inum>>)]

\* iunlock(inode); iput(ip), as namex does on three of its paths
iunlock_iput(s, ip) ==
    AndThen(iput(guard(guard(s, "unlock", ip), "lock", ip), ip), LAMBDA u :
        guard(u, "unlock", ip))

\* The loop of namex with the next inode locked before the guard of the
\* current directory is dropped
RECURSIVE namex_loop_lockNextFirst(_, _, _, _, _)
namex_loop_lockNextFirst(s, ip, path, does_want_parent, name) ==
    Bind(skip_elem(path, name), LAMBDA e :
        IF e.null
        THEN IF does_want_parent
             THEN AndThen(iput(guard(s, "lock", ip), ip), LAMBDA u :
                      [guard(u, "unlock", ip) EXCEPT !.ret = [ip |-> 0, name |-> name]])
             ELSE [s EXCEPT !.ret = [ip |-> ip, name |-> name]]
        ELSE AndThen(ilock(IF s.ev # <<>> /\ s.ev[Len(s.ev)][1] = "lock"
                           THEN guard(guard(s, "lock", ip), "unlock", s.ev[Len(s.ev)][2])
                           ELSE guard(s, "lock", ip), ip), LAMBDA t :
             IF t.ic[ip].typ # "Dir"
             THEN AndThen(iunlock_iput(t, ip), LAMBDA u :
                      [u EXCEPT !.ret = [ip |-> 0, name |-> e.name]])
             ELSE IF does_want_parent /\ e.path = <<>>
             THEN [guard(t, "unlock", ip) EXCEPT !.ret = [ip |-> ip, name |-> e.name]]
             ELSE AndThen(dir_lookup_with_name(t, ip, e.name), LAMBDA d :
                  IF d.ret.ip = 0
                  THEN AndThen(iunlock_iput(d, ip), LAMBDA u :
                           [u EXCEPT !.ret = [ip |-> 0, name |-> e.name]])
                  ELSE namex_loop_lockNextFirst(d, d.ret.ip, e.path,
                                                does_want_parent, e.name))))

\* The loop of namex, ip being the inode it stands on; ret is [ip, name],
\* ip = 0 for None.
RECURSIVE namex_loop(_, _, _, _, _)
namex_loop(s, ip, path, does_want_parent, name) ==
    Bind(skip_elem(path, name), LAMBDA e :
        IF e.null
        THEN IF does_want_parent
             THEN AndThen(iput(guard(s, "lock", ip), ip), LAMBDA u :
                      [guard(u, "unlock", ip) EXCEPT !.ret = [ip |-> 0, name |-> name]])
             ELSE [s EXCEPT !.ret = [ip |-> ip, name |-> name]]
        ELSE AndThen(ilock(guard(s, "lock", ip), ip), LAMBDA t :
             IF t.ic[ip].typ # "Dir"
             THEN AndThen(iunlock_iput(t, ip), LAMBDA u :
                      [u EXCEPT !.ret = [ip |-> 0, name |-> e.name]])
             ELSE IF does_want_parent /\ e.path = <<>>
             THEN [guard(t, "unlock", ip) EXCEPT !.ret = [ip |-> ip, name |-> e.name]]
             ELSE AndThen(dir_lookup_with_name(t, ip, e.name), LAMBDA d :
                  IF d.ret.ip = 0
                  THEN AndThen(iunlock_iput(d, ip), LAMBDA u :
                           [u EXCEPT !.ret = [ip |-> 0, name |-> e.name]])
                  ELSE AndThen(iunlock_iput(d, ip), LAMBDA u :
                           namex_loop(u, d.ret.ip, e.path, does_want_parent, e.name)))))

\* namex that starts at the root directory whatever the path
namex_fromRoot(s, path, does_want_parent, name) ==
    AndThen(iget(s, ROOT_INUM), LAMBDA g :
        namex_loop(g, ROOT_INUM, path, does_want_parent, name))

\* namex: from the root directory when the path starts with '/', else from
\* a clone of the handle to the current directory of the calling
\* environment (s.cwd)
namex(s, path, does_want_parent, name) ==
    IF path # <<>> /\ path[1] = 47
    THEN AndThen(iget(s, ROOT_INUM), LAMBDA g :
             namex_loop(g, ROOT_INUM, path, does_want_parent, name))
    ELSE namex_loop(s, s.cwd, path, does_want_parent, name)

\* namei
namei(s, path) == namex(s, path, FALSE, NoName)

---------------------------------------------------------------------------
(* The file-system image found on the disk at boot: the root directory     *)
(* (inode 1) with ".", ".." and the file "f" (inode 3, one data block of   *)
(* DIRENT_SIZE bytes), and an empty directory as inode 2.  The first free  *)
(* block still holds the bytes of a file that was deleted.                 *)

RootEnts ==
    <<[inum |-> ROOT_INUM, name |-> NameBuf(<<46>>)],
      [inum |-> ROOT_INUM, name |-> NameBuf(<<46, 46>>)],
      [inum |-> 3, name |-> NameBuf(<<102>>)]>>
RootSize == Len(RootEnts) * DIRENT_SIZE
RootBlock == SB.bmap_start + 1
RootBytes ==
    [i \in 0..(BLK_SIZE - 1) |->
        IF i < RootSize THEN as_u8_ptr(RootEnts[i \div DIRENT_SIZE + 1])[i % DIRENT_SIZE]
        ELSE 0]
ImageInodes ==
    [i \in 0..(IPB - 1) |->
        IF i = ROOT_INUM
        THEN [DInode_zero EXCEPT !.typ = "Dir", !.nlink = 1, !.size = RootSize,
                                 !.addrs = [NoAddrs EXCEPT ![0] = RootBlock]]
        ELSE IF i = 2 THEN [DInode_zero EXCEPT !.typ = "Dir", !.nlink = 1]
        ELSE IF i = 3
        THEN [DInode_zero EXCEPT !.typ = "File", !.nlink = 1, !.size = DIRENT_SIZE,
                                 !.addrs = [NoAddrs EXCEPT ![0] = RootBlock + 1]]
        ELSE DInode_zero]
DiskFs ==
    [b \in BlockNos |->
        IF b = 1 THEN SuperBlk
        ELSE IF b = SB.inode_start THEN InodeBlk(ImageInodes)
        ELSE IF b = SB.bmap_start THEN BitmapBlk(0..(RootBlock + 1))
        ELSE IF b = RootBlock THEN BytesBlk(RootBytes)
        ELSE IF b = RootBlock + 1
        THEN BytesBlk([i \in 0..(BLK_SIZE - 1) |-> IF i < DIRENT_SIZE THEN 9 ELSE 0])
        ELSE IF b = RootBlock + 2 THEN BytesBlk([i \in 0..(BLK_SIZE - 1) |-> 7])
        ELSE ZeroBlk]

---------------------------------------------------------------------------
(* The record of what the call paths wrote: per inode the size and bytes   *)
(* that the writei calls made so far add up to.  p: as written, c: as of   *)
(* the last commit point, d: as of the last end_op that returned.          *)

Logical0 ==
    [i \in Inums |->
        IF i = ROOT_INUM
        THEN [size |-> RootSize, bytes |-> [j \in 0..(RootSize - 1) |-> RootBytes[j]]]
        ELSE IF i = 3
        THEN [size |-> DIRENT_SIZE, bytes |-> [j \in 0..(DIRENT_SIZE - 1) |-> 9]]
        ELSE [size |-> 0, bytes |-> [j \in 0..(-1) |-> 0]]]

LogicalWrite(L, inum, src, off, n) ==
    [L EXCEPT ![inum] =
        [size |-> Max({@.size, off + n}),
         bytes |-> [j \in 0..(Max({@.size, off + n}) - 1) |->
                       IF j >= off /\ j < off + n THEN src[j - off]
                       ELSE IF j < @.size THEN @.bytes[j]
                       ELSE 0]]]

\* The slots of directory dinum whose inum is 0
LogicalFree(L, dinum) ==
    {k \in 0..(DirSlots(L[dinum].size) - 1) : DirEnt(L[dinum].bytes, k * DIRENT_SIZE).inum = 0}

\* The inode that name is linked to in directory dinum (0: none)
LogicalLookup(L, dinum, name) ==
    LET hit == {k \in 0..(DirSlots(L[dinum].size) - 1) :
                   /\ DirEnt(L[dinum].bytes, k * DIRENT_SIZE).inum # 0
                   /\ strncmp(name, DirEnt(L[dinum].bytes, k * DIRENT_SIZE).name, DIR_SIZ) = 0}
    IN  IF hit = {} THEN 0 ELSE DirEnt(L[dinum].bytes, Min(hit) * DIRENT_SIZE).inum

\* What resolving "/name" has to return: the inode, its size and bytes
LogicalResolve(L, name) ==
    IF LogicalLookup(L, ROOT_INUM, name) = 0
    THEN [ip |-> 0, size |-> 0, bytes |-> [j \in 0..(-1) |-> 0]]
    ELSE [ip |-> LogicalLookup(L, ROOT_INUM, name),
          size |-> L[LogicalLookup(L, ROOT_INUM, name)].size,
          bytes |-> L[LogicalLookup(L, ROOT_INUM, name)].bytes]

NoRes == [done |-> FALSE, got |-> LogicalResolve(Logical0, NoName),
          want |-> LogicalResolve(Logical0, NoName), name |-> NoName]
NoLink == [done |-> FALSE, off |-> 0, before |-> 0, after |-> 0, free |-> {}]
NoWritei == [done |-> FALSE, inum |-> 0, off |-> 0, n |-> 0, before |-> 0, after |-> 0]
\* The last bare call of the inode layer: its argument, what it returned,
\* the blocks balloc returned just before, the bitmap and the cache entry
\* before and after,
\* the handles held before, the block and the dinode read, a count taken
\* before the call (cache entries for iget, lh.n for bfree), and what the
\* call's subject reads as, through the buffer cache, before and after.
NoCall == [op |-> "none", arg |-> 0, ret |-> 0, prev |-> {}, bits0 |-> {}, bits1 |-> {},
           data |-> ZeroBlk, ino0 |-> NoInode, ino1 |-> NoInode, din |-> DInode_zero,
           refs |-> 0, n0 |-> 0, seen0 |-> {}, seen1 |-> {}]

\* No File: ip 0; File::new_for_inode gives ip and off 0
File_closed == [ip |-> 0, off |-> 0]

Fs0 ==
    [icache |-> [i \in Inums |-> NoInode], icn |-> 0,
     ideal |-> [p |-> Logical0, c |-> Logical0, d |-> Logical0],
     atCrash |-> Logical0, res |-> NoRes, link |-> NoLink, lastW |-> NoWritei,
     nops |-> 0, call |-> NoCall, refs |-> [i \in Inums |-> 0],
     file |-> File_closed, cwd |-> ROOT_INUM]

\* The commit point: what was written is committed.
FsCommitPoint(f) == [f EXCEPT !.ideal.c = f.ideal.p]
\* end_op returns.
FsCommitted(f) == [f EXCEPT !.ideal.d = f.ideal.c]
\* Power is lost: INODE_CACHE is gone; what was not committed is to be gone.
FsCrash(f) ==
    [f EXCEPT !.icache = [i \in Inums |-> NoInode], !.icn = 0,
              !.ideal.p = f.ideal.c, !.atCrash = f.ideal.d,
              !.res = NoRes, !.link = NoLink, !.lastW = NoWritei,
              !.call = NoCall, !.refs = [i \in Inums |-> 0], !.file = File_closed,
              !.cwd = ROOT_INUM]

---------------------------------------------------------------------------
(* The log and the cache under concurrent call paths, crashes and reboots. *)
(* A call path follows the idiom log.rs documents: bread (get and read),   *)
(* modify the data, log_write, brelse (release), holding the BUF_CACHE     *)
(* guard from get to release as every caller in fs.rs does.  end_op is     *)
(* called once per admission, so only while outstanding >= 1.              *)

Vals == 1..MaxVal
NoWrite == [has |-> FALSE, data |-> ZeroBlk]
Home(d) == [b \in HomeBlocks |-> d[b]]

Disk0 ==
    [b \in BlockNos |->
        IF b = 1 THEN SuperBlk
        ELSE IF b \in HomeBlocks THEN Raw(0)
        ELSE ZeroBlk]

\* No disk write of a commit yet
NoWrites == <<>>

---------------------------------------------------------------------------
(* Kernel objects next to the file system: the RwLock of an inode, a Once  *)
(* cell, the file table and the descriptors of the current process.        *)

READER == 4
UPGRADED == 2
WRITER == 1

NThreads == 3       \* call paths that share one RwLock or one Once
Threads == 1..NThreads

\* RwLock::new: the lock word
RwLock_new == 0

\* try_write_internal: compare_exchange(lock, 0, WRITER); the weak form, which
\* write() uses, may fail although the word is 0
try_write_internal_overReaders(lock, spurious) ==
    IF lock % READER = 0 /\ ~spurious
    THEN [ok |-> TRUE, lock |-> lock + WRITER]
    ELSE [ok |-> FALSE, lock |-> lock]

try_write_internal(lock, spurious) ==
    IF lock = 0 /\ ~spurious
    THEN [ok |-> TRUE, lock |-> WRITER]
    ELSE [ok |-> FALSE, lock |-> lock]

\* Drop of a RwLockWriteGuard: fetch_and(!(WRITER | UPGRADED))
drop_write(lock) == lock - (lock % READER)

\* The lock word, and per call path its position ("idle", "added" between
\* the fetch_add of try_read and its test, "r" and "w" while it holds a
\* read or write guard) and the value its fetch_add returned
Rw0 == [lock |-> RwLock_new,
        pc |-> [t \in Threads |-> "idle"],
        val |-> [t \in Threads |-> 0]]

INCOMPLETE == 0
RUNNING == 1
COMPLETE == 2
PANICKED == 3

\* Once::new: state INCOMPLETE, data None (0)
Once_new == [state |-> INCOMPLETE, data |-> 0]

\* The cell, and per caller of call_once its position, its local `status`,
\* and the value behind the reference it returned (0 while it has not);
\* built counts the runs of the builder
Once0 == [cell |-> Once_new,
          pc |-> [t \in Threads |-> "idle"],
          status |-> [t \in Threads |-> INCOMPLETE],
          got |-> [t \in Threads |-> 0],
          built |-> 0]

NFILE == 100
NFILE_PER_ENV == 16
MaxFree == 2        \* free slots and free descriptors left at the start

\* FileTable::new, with the first t slots in use: a slot holds the number of
\* FileTableEntry values that refer to its file, 0 for None
FileTable_new(t) == [i \in 0..(NFILE - 1) |-> IF i < t THEN 1 ELSE 0]

\* find_empty_entry: the first None slot, -1 for None
find_empty_entry(ft) ==
    IF \A i \in DOMAIN ft : ft[i] # 0 THEN -1
    ELSE Min({i \in DOMAIN ft : ft[i] = 0})

\* alloc_as_inode: the entry for the first empty slot, None when there is none
alloc_as_inode(ft) ==
    Bind(find_empty_entry(ft), LAMBDA i :
        IF i = -1 THEN [some |-> FALSE, index |-> -1, ft |-> ft]
        ELSE [some |-> TRUE, index |-> i, ft |-> [ft EXCEPT ![i] = 1]])

\* Env::fd_alloc: the first descriptor whose entry is None (-1) takes ent
fd_alloc(ofile, ent) ==
    IF \A fd \in DOMAIN ofile : ofile[fd] # -1
    THEN [ok |-> FALSE, fd |-> -1, ofile |-> ofile]
    ELSE Bind(Min({fd \in DOMAIN ofile : ofile[fd] = -1}), LAMBDA fd :
             [ok |-> TRUE, fd |-> fd, ofile |-> [ofile EXCEPT ![fd] = ent]])

\* The file table with t slots in use, the descriptors of the current
\* process with the first f in use, and the position of its call of open:
\* ent is the slot open took, err the error it is about to return, ret what
\* the last call returned, ft0 and out0 the file table and outstanding at
\* the call
FilesAt(t, f) ==
    [ft |-> FileTable_new(t),
     ofile |-> [fd \in 0..(NFILE_PER_ENV - 1) |-> IF fd < f THEN fd ELSE -1],
     pc |-> "idle", ent |-> -1, err |-> "", ret |-> "",
     ft0 |-> FileTable_new(t), out0 |-> 0]

PIPE_SIZE == 512
W16 == 65536
MaxPipeCalls == 5   \* calls on the pipe in one behaviour

\* A u32 is kept as its two 16-bit halves [h, l].  a + n for a u32 a and a
\* small n, a - b, and a > b; a build with overflow checks panics where the
\* result leaves the u32 range (ovf), one without wraps
u32(h, l) == [h |-> h, l |-> l]
sum_u32(a, n) == u32(a.h + ((a.l + n) \div W16), (a.l + n) % W16)
gt_u32(a, b) == a.h > b.h \/ (a.h = b.h /\ a.l > b.l)
add_u32(a, n, checked) ==
    [v |-> [sum_u32(a, n) EXCEPT !.h = @ % W16],
     ovf |-> checked /\ sum_u32(a, n).h >= W16]
sub_u32(a, b, checked) ==
    [v |-> u32((a.h - b.h - (IF a.l < b.l THEN 1 ELSE 0)) % W16, (a.l - b.l) % W16),
     ovf |-> checked /\ gt_u32(b, a)]

\* Pipe::new
Pipe_new == [data |-> [j \in 0..(PIPE_SIZE - 1) |-> 0], nread |-> u32(0, 0),
             nwrite |-> u32(0, 0), read_open |-> TRUE, write_open |-> TRUE]

\* The i-th byte (from 0) that the writer in the model writes
PipeSrc(i) == (i % 251) + 1

\* Pipe::read(addr, n): [p, ret, err, out, panic], out the bytes stored at addr
Pipe_read(p, n, checked) ==
    Bind(sub_u32(p.nwrite, p.nread, checked), LAMBDA d :
    Bind(IF d.v.h = 0 /\ d.v.l < n THEN d.v.l ELSE n, LAMBDA len :
        IF d.ovf
        THEN [p |-> p, ret |-> 0, err |-> "", out |-> <<>>,
              panic |-> "attempt to subtract with overflow"]
        ELSE IF len = 0
        THEN [p |-> p, ret |-> 0, err |-> IF p.write_open THEN "TryAgain" ELSE "",
              out |-> <<>>, panic |-> ""]
        ELSE [p |-> [p EXCEPT !.nread = add_u32(@, len, checked).v],
              ret |-> len, err |-> "",
              out |-> [i \in 1..len |-> p.data[(p.nread.l + i - 1) % PIPE_SIZE]],
              panic |-> IF add_u32(p.nread, len, checked).ovf
                        THEN "attempt to add with overflow" ELSE ""]))

\* The loop of Pipe::write: data[nwrite % PIPE_SIZE] = src[i], nwrite += 1
Pipe_store(p, src, n, checked) ==
    [p EXCEPT
        !.nwrite = add_u32(@, n, checked).v,
        !.data = [j \in 0..(PIPE_SIZE - 1) |->
                     Bind((j - p.nwrite.l) % PIPE_SIZE, LAMBDA i0 :
                         IF i0 >= n THEN p.data[j]
                         ELSE src[i0 + PIPE_SIZE * ((n - 1 - i0) \div PIPE_SIZE) + 1])]]

\* Pipe::write(addr, n): [p, ret, err, panic], src the n bytes at addr
Pipe_write(p, src, n, checked) ==
    Bind(add_u32(p.nwrite, n, checked), LAMBDA a :
    Bind(add_u32(p.nread, PIPE_SIZE, checked), LAMBDA b :
        IF ~p.read_open
        THEN [p |-> p, ret |-> 0, err |-> "BrokenPipe", panic |-> ""]
        ELSE IF a.ovf \/ b.ovf
        THEN [p |-> p, ret |-> 0, err |-> "", panic |-> "attempt to add with overflow"]
        ELSE IF gt_u32(a.v, b.v)
        THEN [p |-> p, ret |-> 0, err |-> "TryAgain", panic |-> ""]
        ELSE [p |-> Pipe_store(p, src, n, checked), ret |-> n, err |-> "",
              panic |-> ""]))

\* pipe::close of one end
Pipe_close(p, writable) ==
    IF writable THEN [p EXCEPT !.write_open = FALSE] ELSE [p EXCEPT !.read_open = FALSE]

NoPipeCall == [op |-> "none", n |-> 0, ret |-> 0, err |-> "", out |-> <<>>,
               same |-> TRUE, unread0 |-> 0, ro0 |-> TRUE, gr0 |-> 0]

\* A pipe through which k bytes have gone (0, or more than PIPE_SIZE bytes
\* of value 255), all of them read, in a build with or without overflow
\* checks; gw and gr count the bytes written into it and read from it since
\* then, calls the calls made on it, last the last call
PipeAt(k, checked) ==
    [p |-> [Pipe_new EXCEPT
               !.data = [j \in 0..(PIPE_SIZE - 1) |-> IF k = u32(0, 0) THEN 0 ELSE 255],
               !.nread = k, !.nwrite = k],
     checked |-> checked, gw |-> 0, gr |-> 0, calls |-> 0, last |-> NoPipeCall]

Pipe0 == PipeAt(u32(0, 0), FALSE)

\* No call path is in a system call, INODE_CACHE (a Mutex, fs.rs:203) is free
Calls0 == [icLock |-> 0, call |-> [p \in Procs |-> "none"], arg |-> [p \in Procs |-> 0],
           n |-> 0]

\* The state after boot with disk d, the boot path at position k, of the
\* buffer cache, the log and the file system.
InitKernel(d, k) ==
    /\ disk = d
    /\ cache = BufCache_new
    /\ log = Log_empty
    /\ bcLock = 0
    /\ logLock = 0
    /\ pc = [p \in Procs |-> "idle"]
    /\ held = [p \in Procs |-> 0]
    /\ cstep = <<"none", 0>>
    /\ kpc = k
    /\ panicked = ""
    /\ incs = [p \in Procs |-> 0]
    /\ txnW = [b \in HomeBlocks |-> NoWrite]
    /\ pre = Home(d)
    /\ phase = "open"
    /\ crashPhase = "none"
    /\ runs = 0
    /\ snap = [disk |-> d, lh |-> ZeroHeader]
    /\ mountDisk = d
    /\ handles = <<>>
    /\ fs = Fs0
    /\ wlog = NoWrites

\* The same with the lock, the cell and the tables as they are constructed.
InitAt(d, k) ==
    /\ InitKernel(d, k)
    /\ rw = Rw0
    /\ once = Once0
    /\ files = FilesAt(0, 0)
    /\ calls = Calls0
    /\ pipe = Pipe0

InitLog == InitAt(Disk0, "log_init")

Running == kpc = "run" /\ panicked = ""
SlotOf(c, blockno) == Min(Matches(c, ROOT_DEV, blockno))

\* lib.rs: log_init(1) up to the call of recover_from_log
LogInit ==
    /\ kpc = "log_init" /\ panicked = ""
    /\ \E r \in {log_init(cache, disk, log, ROOT_DEV)} :
           /\ cache' = r.cache
           /\ log' = r.log
           /\ panicked' = r.panic
    /\ kpc' = "read_head"
    /\ mountDisk' = disk
    /\ UNCHANGED <<wlog, kobjs, disk, bcLock, logLock, pc, held, cstep, incs, txnW, pre, phase,
                   crashPhase, runs, snap, handles, fs>>

\* recover_from_log: read_head, install_trans, lh.n = 0
RecoverInstall ==
    /\ kpc = "read_head" /\ panicked = ""
    /\ \E h \in {read_head(cache, disk, log)} :
       \E r \in {install_trans(h.cache, disk, h.log)} :
           /\ cache' = r.cache
           /\ disk' = r.disk
           /\ log' = [h.log EXCEPT !.lh.n = 0]
           /\ panicked' = FirstPanic(<<h.panic, r.panic>>)
    /\ kpc' = "write_head"
    /\ UNCHANGED <<wlog, kobjs, bcLock, logLock, pc, held, cstep, incs, txnW, pre, phase,
                   crashPhase, runs, snap, mountDisk, handles, fs>>

\* recover_from_log: write_head, which clears the log
RecoverClear ==
    /\ kpc = "write_head" /\ panicked = ""
    /\ \E r \in {write_head(cache, disk, log)} :
           /\ cache' = r.cache
           /\ disk' = r.disk
           /\ panicked' = r.panic
           /\ snap' = IF runs = 0 THEN [disk |-> r.disk, lh |-> log.lh] ELSE snap
    /\ kpc' = "done"
    /\ runs' = runs + 1
    /\ UNCHANGED <<wlog, kobjs, log, bcLock, logLock, pc, held, cstep, incs, txnW, pre, phase,
                   crashPhase, mountDisk, handles, fs>>

\* recover_from_log run a second time on what the first run left
RecoverAgain ==
    /\ kpc = "done" /\ panicked = "" /\ runs < 2
    /\ kpc' = "read_head"
    /\ UNCHANGED <<wlog, kobjs, disk, cache, log, bcLock, logLock, pc, held, cstep, panicked, incs,
                   txnW, pre, phase, crashPhase, runs, snap, mountDisk, handles, fs>>

\* log_init returns: file-system calls are admitted from here on
MountDone ==
    /\ kpc = "done" /\ panicked = ""
    /\ kpc' = "run"
    /\ txnW' = [b \in HomeBlocks |-> NoWrite]
    /\ pre' = Home(disk)
    /\ phase' = "open"
    /\ crashPhase' = "none"
    /\ UNCHANGED <<wlog, kobjs, disk, cache, log, bcLock, logLock, pc, held, cstep, panicked, incs,
                   runs, snap, mountDisk, handles, fs>>

\* One pass of begin_op's loop by call path p.
BeginOp(p) ==
    /\ Running /\ pc[p] \in {"idle", "begin_op"} /\ logLock = 0
    /\ log' = begin_op(log)
    /\ incs' = [incs EXCEPT ![p] = IF log'.outstanding > log.outstanding /\ @ < MaxIncs
                                   THEN @ + 1 ELSE @]
    /\ pc' = [pc EXCEPT ![p] = "begin_op"]
    /\ UNCHANGED <<wlog, kobjs, disk, cache, bcLock, logLock, held, cstep, kpc, panicked, txnW, pre,
                   phase, crashPhase, runs, snap, mountDisk, handles, fs>>

\* One pass of begin_op's loop that admits an operation, by any call path.
Admit ==
    /\ Running /\ logLock = 0
    /\ log' = begin_op(log)
    /\ log'.outstanding > log.outstanding
    /\ UNCHANGED <<wlog, kobjs, disk, cache, bcLock, logLock, pc, held, cstep, kpc, panicked, incs,
                   txnW, pre, phase, crashPhase, runs, snap, mountDisk, handles, fs>>

\* bread: buf_cache(), get, read
Bread(p, b) ==
    /\ Running /\ pc[p] = "idle" /\ bcLock = 0
    /\ \E g \in {get(cache, ROOT_DEV, b)} :
       \E r \in {read(g.cache, disk, g.slot)} :
           /\ cache' = r.cache
           /\ disk' = r.disk
           /\ panicked' = FirstPanic(<<g.panic, r.panic>>)
    /\ bcLock' = p
    /\ held' = [held EXCEPT ![p] = b]
    /\ pc' = [pc EXCEPT ![p] = "bread"]
    /\ UNCHANGED <<wlog, kobjs, log, logLock, cstep, kpc, incs, txnW, pre, phase, crashPhase, runs,
                   snap, mountDisk, handles, fs>>

\* the caller changes the buffer's data
Modify(p, v) ==
    /\ Running /\ pc[p] = "bread"
    /\ cache' = [cache EXCEPT ![SlotOf(cache, held[p])].data = Raw(v)]
    /\ pc' = [pc EXCEPT ![p] = "modified"]
    /\ UNCHANGED <<wlog, kobjs, disk, log, bcLock, logLock, held, cstep, kpc, panicked, incs, txnW,
                   pre, phase, crashPhase, runs, snap, mountDisk, handles, fs>>

\* log_write(bp)
LogWrite(p) ==
    /\ Running /\ pc[p] = "modified" /\ logLock = 0
    /\ \E i \in {SlotOf(cache, held[p])} :
       \E r \in {log_write(cache, disk, log, i)} :
           /\ cache' = r.cache
           /\ disk' = r.disk
           /\ log' = r.log
           /\ panicked' = r.panic
           /\ txnW' = IF r.panic = ""
                      THEN [txnW EXCEPT ![held[p]] = [has |-> TRUE, data |-> cache[i].data]]
                      ELSE txnW
    /\ pc' = [pc EXCEPT ![p] = "logged"]
    /\ UNCHANGED <<wlog, kobjs, bcLock, logLock, held, cstep, kpc, incs, pre, phase, crashPhase,
                   runs, snap, mountDisk, handles, fs>>

\* brelse: release, and the BUF_CACHE guard is dropped
Brelse(p) ==
    /\ Running /\ pc[p] \in {"bread", "logged"}
    /\ \E r \in {release(cache, ROOT_DEV, held[p])} :
           /\ cache' = r.cache
           /\ panicked' = r.panic
    /\ bcLock' = 0
    /\ held' = [held EXCEPT ![p] = 0]
    /\ pc' = [pc EXCEPT ![p] = "idle"]
    /\ UNCHANGED <<wlog, kobjs, disk, log, logLock, cstep, kpc, incs, txnW, pre, phase, crashPhase,
                   runs, snap, mountDisk, handles, fs>>

\* end_op that calls commit whatever outstanding is left
EndOp_commitAlways(p) ==
    /\ Running /\ pc[p] = "idle" /\ logLock = 0 /\ log.outstanding >= 1
    /\ log' = [log EXCEPT !.outstanding = @ - 1]
    /\ IF log.lh.n > 0
       THEN /\ pc' = [pc EXCEPT ![p] = "commit"]
            /\ logLock' = p
            /\ cstep' = <<"write_log", 0>>
       ELSE UNCHANGED <<pc, logLock, cstep>>
    /\ UNCHANGED <<wlog, kobjs, disk, cache, bcLock, held, kpc, panicked, incs, txnW, pre, phase,
                   crashPhase, runs, snap, mountDisk, handles, fs>>

\* end_op up to the call of commit: the LOG lock is taken and kept
EndOp(p) ==
    /\ Running /\ pc[p] = "idle" /\ logLock = 0 /\ log.outstanding >= 1
    /\ log' = [log EXCEPT !.outstanding = @ - 1]
    /\ IF log'.outstanding = 0 /\ log.lh.n > 0
       THEN /\ pc' = [pc EXCEPT ![p] = "commit"]
            /\ logLock' = p
            /\ cstep' = <<"write_log", 0>>
       ELSE UNCHANGED <<pc, logLock, cstep>>
    /\ UNCHANGED <<wlog, kobjs, disk, cache, bcLock, held, kpc, panicked, incs, txnW, pre, phase,
                   crashPhase, runs, snap, mountDisk, handles, fs>>

\* A commit that installs right after write_log, before any write_head
WriteLogPass_thenInstall(p) ==
    /\ Running /\ pc[p] = "commit" /\ cstep[1] = "write_log"
    /\ bcLock = IF cstep[2] = 0 THEN 0 ELSE p
    /\ \E r \in {write_log_pass(cache, disk, log, cstep[2])} :
           /\ cache' = r.cache
           /\ disk' = r.disk
           /\ panicked' = r.panic
    /\ IF cstep[2] + 1 < log.lh.n
       THEN /\ cstep' = <<"write_log", cstep[2] + 1>>
            /\ bcLock' = p
       ELSE /\ cstep' = <<"install_trans", 0>>
            /\ bcLock' = 0
    /\ wlog' = IF panicked' = ""
               THEN Append(wlog, [b |-> log.start + cstep[2] + 1, n |-> -1])
               ELSE wlog
    /\ UNCHANGED <<kobjs, log, logLock, pc, held, kpc, incs, txnW, pre, phase, crashPhase,
                   runs, snap, mountDisk, handles, fs>>

\* commit: one pass of write_log's loop (one log block written)
WriteLogPass(p) ==
    /\ Running /\ pc[p] = "commit" /\ cstep[1] = "write_log"
    /\ bcLock = IF cstep[2] = 0 THEN 0 ELSE p
    /\ \E r \in {write_log_pass(cache, disk, log, cstep[2])} :
           /\ cache' = r.cache
           /\ disk' = r.disk
           /\ panicked' = r.panic
    /\ IF cstep[2] + 1 < log.lh.n
       THEN /\ cstep' = <<"write_log", cstep[2] + 1>>
            /\ bcLock' = p
       ELSE /\ cstep' = <<"write_head", 0>>
            /\ bcLock' = 0
    /\ wlog' = IF panicked' = ""
               THEN Append(wlog, [b |-> log.start + cstep[2] + 1, n |-> -1])
               ELSE wlog
    /\ UNCHANGED <<kobjs, log, logLock, pc, held, kpc, incs, txnW, pre, phase, crashPhase,
                   runs, snap, mountDisk, handles, fs>>

\* commit: the first write_head, the commit point
WriteHeadCommit(p) ==
    /\ Running /\ pc[p] = "commit" /\ cstep[1] = "write_head" /\ bcLock = 0
    /\ \E r \in {write_head(cache, disk, log)} :
           /\ cache' = r.cache
           /\ disk' = r.disk
           /\ panicked' = r.panic
    /\ cstep' = <<"install_trans", 0>>
    /\ phase' = "committed"
    /\ wlog' = IF panicked' = ""
               THEN Append(wlog, [b |-> log.start, n |-> LogHeader(disk'[log.start]).n])
               ELSE wlog
    /\ UNCHANGED <<kobjs, log, bcLock, logLock, pc, held, kpc, incs, txnW, pre, crashPhase,
                   runs, snap, mountDisk, handles>>
    /\ fs' = FsCommitPoint(fs)

\* commit: one pass of install_trans's loop (one home block written); after
\* the last pass, lh.n = 0
InstallPass(p) ==
    /\ Running /\ pc[p] = "commit" /\ cstep[1] = "install_trans"
    /\ bcLock = IF cstep[2] = 0 THEN 0 ELSE p
    /\ \E r \in {install_trans_pass(cache, disk, log, cstep[2])} :
           /\ cache' = r.cache
           /\ disk' = r.disk
           /\ panicked' = r.panic
    /\ IF cstep[2] + 1 < log.lh.n
       THEN /\ cstep' = <<"install_trans", cstep[2] + 1>>
            /\ bcLock' = p
            /\ log' = log
       ELSE /\ cstep' = <<"erase", 0>>
            /\ bcLock' = 0
            /\ log' = [log EXCEPT !.lh.n = 0]
    /\ wlog' = IF panicked' = "" THEN Append(wlog, [b |-> log.lh.block[cstep[2]], n |-> -1])
               ELSE wlog
    /\ UNCHANGED <<kobjs, logLock, pc, held, kpc, incs, txnW, pre, phase, crashPhase, runs,
                   snap, mountDisk, handles, fs>>

\* commit: the second write_head erases the transaction; end_op returns
WriteHeadErase(p) ==
    /\ Running /\ pc[p] = "commit" /\ cstep[1] = "erase" /\ bcLock = 0
    /\ \E r \in {write_head(cache, disk, log)} :
           /\ cache' = r.cache
           /\ disk' = r.disk
           /\ panicked' = r.panic
           /\ pre' = Home(r.disk)
    /\ cstep' = <<"none", 0>>
    /\ logLock' = 0
    /\ pc' = [pc EXCEPT ![p] = "idle"]
    /\ txnW' = [b \in HomeBlocks |-> NoWrite]
    /\ phase' = "open"
    /\ wlog' = NoWrites
    /\ UNCHANGED <<kobjs, log, bcLock, held, kpc, incs, crashPhase, runs, snap, mountDisk,
                   handles>>
    /\ fs' = FsCommitted(fs)

\* Power is lost: memory is gone, the disk stays, the kernel boots again.
Crash ==
    /\ disk' = disk
    /\ cache' = BufCache_new
    /\ log' = Log_empty
    /\ bcLock' = 0
    /\ logLock' = 0
    /\ pc' = [p \in Procs |-> "idle"]
    /\ held' = [p \in Procs |-> 0]
    /\ cstep' = <<"none", 0>>
    /\ kpc' = "log_init"
    /\ panicked' = ""
    /\ incs' = [p \in Procs |-> 0]
    /\ runs' = 0
    /\ snap' = [disk |-> disk, lh |-> ZeroHeader]
    /\ crashPhase' = IF kpc # "run" THEN (IF crashPhase = "none" THEN "idle" ELSE crashPhase)
                     ELSE IF phase = "committed" THEN "after"
                     ELSE IF \E b \in HomeBlocks : txnW[b].has THEN "before"
                     ELSE "idle"
    /\ fs' = FsCrash(fs)
    /\ wlog' = NoWrites
    /\ UNCHANGED <<kobjs, txnW, pre, phase, mountDisk, handles>>

Writers == 1..NWriters

NextLog ==
    \/ LogInit
    \/ RecoverInstall
    \/ RecoverClear
    \/ MountDone
    \/ Admit
    \/ \E p \in Writers : \E b \in HomeBlocks : Bread(p, b)
    \/ \E p \in Writers : \E v \in Vals : Modify(p, v)
    \/ \E p \in Writers : LogWrite(p)
    \/ \E p \in Writers : Brelse(p)
    \/ \E p \in Writers : EndOp(p)
    \/ \E p \in Writers : WriteLogPass(p)
    \/ \E p \in Writers : WriteHeadCommit(p)
    \/ \E p \in Writers : InstallPass(p)
    \/ \E p \in Writers : WriteHeadErase(p)
    \/ Crash

SpecLog == InitLog /\ [][NextLog]_vars

NextAdmit ==
    \/ LogInit
    \/ RecoverInstall
    \/ RecoverClear
    \/ MountDone
    \/ \E p \in Procs : BeginOp(p)
    \/ \E p \in Procs : \E b \in HomeBlocks : Bread(p, b)
    \/ \E p \in Procs : \E v \in Vals : Modify(p, v)
    \/ \E p \in Procs : LogWrite(p)
    \/ \E p \in Procs : Brelse(p)
    \/ \E p \in Procs : EndOp(p)
    \/ \E p \in Procs : WriteLogPass(p)
    \/ \E p \in Procs : WriteHeadCommit(p)
    \/ \E p \in Procs : InstallPass(p)
    \/ \E p \in Procs : WriteHeadErase(p)

SpecAdmit == InitLog /\ [][NextAdmit]_vars

---------------------------------------------------------------------------
(* One call path that fills the header: in one transaction it logs block   *)
(* after block, each time either the next block not logged yet or the      *)
(* first block once more, until log_write refuses or end_op commits.       *)

FillBlocks == {SB.inode_start, SB.inode_start + log.lh.n}

NextFill ==
    \/ LogInit
    \/ RecoverInstall
    \/ RecoverClear
    \/ MountDone
    \/ log.outstanding = 0 /\ Admit
    \/ \E b \in FillBlocks : Bread(1, b)
    \/ Modify(1, 1)
    \/ LogWrite(1)
    \/ Brelse(1)
    \/ EndOp(1)
    \/ WriteLogPass(1)
    \/ WriteHeadCommit(1)
    \/ InstallPass(1)
    \/ WriteHeadErase(1)

SpecFill == InitLog /\ [][NextFill]_vars

---------------------------------------------------------------------------
(* recover_from_log against any persisted log: the header block holds any  *)
(* count and block list, the log's data blocks any contents.               *)

\* The block lists a header with count n can hold: distinct home blocks.
HeaderLists(n) ==
    {f \in [0..(n - 1) -> HomeBlocks] : \A i, j \in 0..(n - 1) : f[i] = f[j] => i = j}
PersistedHeaders ==
    UNION {{[n |-> n, block |-> [i \in 0..(LOG_SIZE - 1) |-> IF i < n THEN f[i] ELSE 0]] :
               f \in HeaderLists(n)} : n \in 0..NHome}
LogData == [(SB.log_start + 1)..(SB.log_start + NHome) -> {Raw(v) : v \in 0..MaxVal}]
RecoverDisk(h, ld) ==
    [b \in BlockNos |->
        IF b = 1 THEN SuperBlk
        ELSE IF b = SB.log_start THEN HeaderBlk(h)
        ELSE IF b \in DOMAIN ld THEN ld[b]
        ELSE IF b \in HomeBlocks THEN Raw(0)
        ELSE ZeroBlk]

InitRecover ==
    \E h \in PersistedHeaders : \E ld \in LogData : InitAt(RecoverDisk(h, ld), "log_init")

NextRecover ==
    \/ LogInit
    \/ RecoverInstall
    \/ RecoverClear
    \/ RecoverAgain

SpecRecover == InitRecover /\ [][NextRecover]_vars

---------------------------------------------------------------------------
(* The buffer cache under any sequence of get and release calls.           *)

Devs == 1..NDevs
KeyBlocks == 0..(NKeyBlocks - 1)

InitBuf == InitAt(Disk0, "buf")

\* BufCache::get(dev, blockno); the handler returned is kept until released
BufGet(dev, blockno) ==
    /\ kpc = "buf" /\ panicked = ""
    /\ \E g \in {get(cache, dev, blockno)} :
           /\ cache' = g.cache
           /\ panicked' = g.panic
           /\ handles' = Append(handles, [dev |-> dev, blockno |-> blockno, slot |-> g.slot])
    /\ UNCHANGED <<wlog, kobjs, disk, log, bcLock, logLock, pc, held, cstep, kpc, incs, txnW, pre,
                   phase, crashPhase, runs, snap, mountDisk, fs>>

\* BufCache::release(handler) of the k-th handler outstanding
BufRelease(k) ==
    /\ kpc = "buf" /\ panicked = "" /\ k \in 1..Len(handles)
    /\ \E r \in {release(cache, handles[k].dev, handles[k].blockno)} :
           /\ cache' = r.cache
           /\ panicked' = r.panic
    /\ handles' = [i \in 1..(Len(handles) - 1) |->
                      IF i < k THEN handles[i] ELSE handles[i + 1]]
    /\ UNCHANGED <<wlog, kobjs, disk, log, bcLock, logLock, pc, held, cstep, kpc, incs, txnW, pre,
                   phase, crashPhase, runs, snap, mountDisk, fs>>

NextBuf ==
    \/ \E dev \in Devs : \E b \in KeyBlocks : Len(handles) < MaxHandles /\ BufGet(dev, b)
    \/ \E k \in 1..MaxHandles : BufRelease(k)

SpecBuf == InitBuf /\ [][NextBuf]_vars

\* BufCache::release with a handler for a key that no outstanding handler
\* carries
BufReleaseAbsent(dev, blockno) ==
    /\ kpc = "buf" /\ panicked = ""
    /\ \A k \in 1..Len(handles) : handles[k].dev # dev \/ handles[k].blockno # blockno
    /\ \E r \in {release(cache, dev, blockno)} :
           /\ cache' = r.cache
           /\ panicked' = r.panic
    /\ UNCHANGED <<wlog, kobjs, disk, log, bcLock, logLock, pc, held, cstep, kpc, incs, txnW, pre,
                   phase, crashPhase, runs, snap, mountDisk, handles, fs>>

\* The pool filled up: after the first MaxHandles handlers every get asks
\* for a block number not asked for before, until a get finds no slot.
NextPool ==
    \/ Len(handles) < MaxHandles /\ BufGet(ROOT_DEV, 0)
    \/ Len(handles) <= NBUF + MaxHandles /\ BufGet(ROOT_DEV, Len(handles))
    \/ Len(handles) >= 1 /\ Len(handles) < MaxHandles /\ BufRelease(1)
    \/ BufRelease(Len(handles))
    \/ BufReleaseAbsent(ROOT_DEV, Len(handles) + 1)

SpecPool == InitBuf /\ [][NextPool]_vars

---------------------------------------------------------------------------
(* One call path using the inode layer inside transactions: it links and   *)
(* removes names in the root directory, writes to inode 2 and resolves     *)
(* paths, with a crash possible between any two steps.                     *)

InitFs == InitAt(DiskFs, "log_init")

LinkNames == {<<97>>, <<98>>}
RemoveNames == {<<102>>}
WriteLens == {DIRENT_SIZE, MaxWrite}
\* The bytes a call path writes: none of them zero.
Src(n) == [i \in 0..(n - 1) |-> (i % 251) + 1]
NoBytes == [j \in 0..(-1) |-> 0]

S0 == [cache |-> cache, disk |-> disk, log |-> log, ic |-> fs.icache, icn |-> fs.icn,
       panic |-> "", ret |-> 0, cwd |-> fs.cwd, ev |-> <<>>]
InTxn ==
    /\ Running /\ pc[1] = "idle" /\ bcLock = 0 /\ logLock = 0
    /\ log.outstanding = 1 /\ fs.nops < MaxOps

\* The machine state s becomes the state, f the record of what was written.
FsApply(s, f) ==
    /\ cache' = s.cache
    /\ disk' = s.disk
    /\ log' = s.log
    /\ panicked' = s.panic
    /\ fs' = [f EXCEPT !.icache = s.ic, !.icn = s.icn,
                       !.nops = IF @ < MaxOps THEN @ + 1 ELSE @]
    /\ UNCHANGED <<wlog, kobjs, bcLock, logLock, pc, held, cstep, kpc, incs, txnW, pre, phase,
                   crashPhase, runs, snap, mountDisk, handles>>

\* begin_op of the one call path
FsBeginOp ==
    /\ log.outstanding = 0 /\ fs.nops < MaxOps
    /\ Admit

\* iget and ilock of the root directory, then dir_link(root, name, inum)
FsDirLink(name, inum) ==
    /\ InTxn
    /\ \E t \in {AndThen(iget(S0, ROOT_INUM), LAMBDA g : ilock(g, ROOT_INUM))} :
       \E s \in {AndThen(t, LAMBDA u : dir_link(u, ROOT_INUM, name, inum))} :
           FsApply(s,
               [fs EXCEPT
                   !.ideal.p =
                       IF s.panic = "" /\ s.ret.ok
                       THEN LogicalWrite(@, ROOT_INUM,
                                as_u8_ptr([inum |-> inum, name |-> name]),
                                s.ret.off, DIRENT_SIZE)
                       ELSE @,
                   !.link =
                       IF s.panic = "" /\ s.ret.ok
                       THEN [done |-> TRUE, off |-> s.ret.off,
                             before |-> t.ic[ROOT_INUM].size,
                             after |-> s.ic[ROOT_INUM].size,
                             free |-> LogicalFree(fs.ideal.p, ROOT_INUM)]
                       ELSE NoLink])

\* iget and ilock of the root directory, dir_lookup_with_name, and the
\* writei of an empty DirEnt over the entry found, as unlink does
FsDirRemove(name) ==
    /\ InTxn
    /\ \E s \in {AndThen(AndThen(iget(S0, ROOT_INUM), LAMBDA g : ilock(g, ROOT_INUM)),
                    LAMBDA t :
                 AndThen(dir_lookup_with_name(t, ROOT_INUM, name), LAMBDA d :
                     IF d.ret.ip = 0 THEN [d EXCEPT !.ret = [found |-> FALSE, off |-> 0]]
                     ELSE AndThen(writei(d, ROOT_INUM, as_u8_ptr(DirEnt_empty),
                                         d.ret.off, DIRENT_SIZE), LAMBDA w :
                              [w EXCEPT !.ret = [found |-> TRUE, off |-> d.ret.off]])))} :
           FsApply(s,
               [fs EXCEPT
                   !.ideal.p =
                       IF s.panic = "" /\ s.ret.found
                       THEN LogicalWrite(@, ROOT_INUM, as_u8_ptr(DirEnt_empty),
                                         s.ret.off, DIRENT_SIZE)
                       ELSE @])

\* iget and ilock of inum, then writei of n bytes at offset 0 or at the end
FsWritei(inum, n) ==
    /\ InTxn
    /\ \E t \in {AndThen(iget(S0, inum), LAMBDA g : ilock(g, inum))} :
       \E off \in {0, t.ic[inum].size} :
       \E s \in {AndThen(t, LAMBDA u : writei(u, inum, Src(n), off, n))} :
           FsApply(s,
               [fs EXCEPT
                   !.ideal.p =
                       IF s.panic = "" THEN LogicalWrite(@, inum, Src(n), off, n) ELSE @,
                   !.lastW =
                       IF s.panic = ""
                       THEN [done |-> TRUE, inum |-> inum, off |-> off, n |-> n,
                             before |-> t.ic[inum].size, after |-> s.ic[inum].size]
                       ELSE NoWritei])

\* namei("/" + cs), then ilock of the inode found and readi of all its bytes
FsResolve(cs) ==
    /\ InTxn
    /\ \E s \in {AndThen(namei(S0, <<47>> \o cs), LAMBDA r :
                     IF r.ret.ip = 0
                     THEN [r EXCEPT !.ret = [ip |-> 0, size |-> 0, bytes |-> NoBytes]]
                     ELSE AndThen(ilock(r, r.ret.ip), LAMBDA l :
                          AndThen(readi(l, r.ret.ip, 0, l.ic[r.ret.ip].size), LAMBDA x :
                              [x EXCEPT !.ret = [ip |-> r.ret.ip,
                                                 size |-> l.ic[r.ret.ip].size,
                                                 bytes |-> x.ret.dst]])))} :
           FsApply(s,
               [fs EXCEPT
                   !.res =
                       IF s.panic = ""
                       THEN [done |-> TRUE, got |-> s.ret,
                             want |-> LogicalResolve(fs.ideal.p, NameBuf(cs)),
                             name |-> NameBuf(cs)]
                       ELSE NoRes])

NextFs ==
    \/ LogInit
    \/ RecoverInstall
    \/ RecoverClear
    \/ MountDone
    \/ FsBeginOp
    \/ \E cs \in LinkNames : FsDirLink(NameBuf(cs), 2)
    \/ \E cs \in RemoveNames : FsDirRemove(NameBuf(cs))
    \/ \E n \in WriteLens : FsWritei(2, n)
    \/ \E cs \in LinkNames : FsResolve(cs)
    \/ EndOp(1)
    \/ WriteLogPass(1)
    \/ WriteHeadCommit(1)
    \/ InstallPass(1)
    \/ WriteHeadErase(1)
    \/ Crash

SpecFs == InitFs /\ [][NextFs]_vars

---------------------------------------------------------------------------
(* The inode layer called function by function inside a transaction: a     *)
(* call path takes handles with iget, locks them, drops a link as unlink   *)
(* does, puts them back, and allocates and frees blocks.  A handle is an   *)
(* Arc clone; fs.refs counts those the call path holds.  Handles to an     *)
(* entry that iput has removed are not followed further.  The transaction  *)
(* stays open: what a commit does with these writes is in SpecFs.          *)

CallInums == {3, 4}
CallBlocks == {RootBlock + 1, RootBlock + 2}
InCall ==
    /\ Running /\ pc[1] = "idle" /\ bcLock = 0 /\ logLock = 0
    /\ log.outstanding = 1

\* The data of block b as a get and a read return it
bread_data(s, b) == Bind(get_read(s, b), LAMBDA r : r.cache[r.ret].data)

\* iget(ROOT_DEV, inum); the handle returned is kept
FsIget(inum) ==
    /\ InCall /\ fs.refs[inum] < MaxRefs
    /\ \E s \in {iget(S0, inum)} :
           FsApply(s, [fs EXCEPT
               !.refs[inum] = IF s.panic = "" THEN @ + 1 ELSE @,
               !.call = [NoCall EXCEPT !.op = "iget", !.arg = inum,
                                       !.ino0 = fs.icache[inum], !.ino1 = s.ic[inum],
                                       !.n0 = Cardinality({i \in Inums : fs.icache[i].some})]])

\* ilock(&ip) and iunlock on a handle held
FsIlock(inum) ==
    /\ InCall /\ fs.refs[inum] >= 1 /\ fs.icache[inum].some
    /\ \E s \in {ilock(S0, inum)} :
           FsApply(s, [fs EXCEPT
               !.call = [NoCall EXCEPT !.op = "ilock", !.arg = inum,
                                       !.ino0 = fs.icache[inum], !.ino1 = s.ic[inum],
                                       !.din = DInodes(bread_data(S0, block_for_inode(inum)))
                                                   [inum % IPB]]])

\* unlink on a handle held: ilock, the nlink test, decr_nlink, iupdate, iunlock
FsDecNlink(inum) ==
    /\ InCall /\ fs.refs[inum] >= 1 /\ fs.icache[inum].some
    /\ \E s \in {AndThen(ilock(S0, inum), LAMBDA t :
                     IF t.ic[inum].nlink < 1 THEN Halt(t, "unlink: nlink < 1")
                     ELSE iupdate([t EXCEPT !.ic[inum].nlink = @ - 1],
                                  [t.ic[inum] EXCEPT !.nlink = @ - 1]))} :
           FsApply(s, [fs EXCEPT !.call = [NoCall EXCEPT !.op = "unlink", !.arg = inum]])

\* iput(ip) on a handle held
FsIput(inum) ==
    /\ InCall /\ fs.refs[inum] >= 1 /\ fs.icache[inum].some
    /\ \E s \in {iput(S0, inum)} :
           FsApply(s, [fs EXCEPT
               !.refs[inum] = IF s.ic[inum].some THEN @ - 1 ELSE 0,
               !.call = [NoCall EXCEPT !.op = "iput", !.arg = inum, !.refs = fs.refs[inum],
                                       !.ino0 = fs.icache[inum], !.ino1 = s.ic[inum]]])

\* balloc(ROOT_DEV), then the block returned is read through the cache
FsBalloc ==
    /\ InCall
    /\ \E s \in {balloc(S0)} :
           FsApply(s, [fs EXCEPT
               !.call = [NoCall EXCEPT
                   !.op = "balloc", !.ret = s.ret,
                   !.prev = IF fs.call.op = "balloc"
                            THEN fs.call.prev \cup {fs.call.ret} ELSE {},
                   !.bits0 = Bitmap(bread_data(S0, block_for_bitmap(0))),
                   !.bits1 = Bitmap(bread_data(s, block_for_bitmap(0))),
                   !.data = IF s.panic = "" THEN bread_data(s, s.ret) ELSE ZeroBlk]])

\* bfree(ROOT_DEV, blockno)
FsBfree(blockno) ==
    /\ InCall
    /\ \E s \in {bfree(S0, blockno)} :
           FsApply(s, [fs EXCEPT
               !.call = [NoCall EXCEPT
                   !.op = "bfree", !.arg = blockno, !.n0 = log.lh.n,
                   !.bits0 = Bitmap(bread_data(S0, block_for_bitmap(blockno))),
                   !.bits1 = Bitmap(bread_data([s EXCEPT !.panic = ""],
                                               block_for_bitmap(blockno)))]])

NextInode ==
    \/ LogInit
    \/ RecoverInstall
    \/ RecoverClear
    \/ MountDone
    \/ log.outstanding = 0 /\ Admit
    \/ \E i \in CallInums : FsIget(i)
    \/ \E i \in CallInums : FsIlock(i)
    \/ \E i \in CallInums : FsDecNlink(i)
    \/ \E i \in CallInums : FsIput(i)
    \/ FsBalloc
    \/ \E b \in CallBlocks : FsBfree(b)

SpecInode == InitFs /\ [][NextInode]_vars

---------------------------------------------------------------------------
(* The file and directory functions called one by one inside a             *)
(* transaction that stays open: block_for and readi on the file "f"        *)
(* (inode 3) and on the root directory, writei on the file, dir_link in    *)
(* the root directory, and namex from the root or from the caller's        *)
(* current directory.                                                      *)

FileBns == {0, 1, NDIRECT, NDIRECT + 1, MAX_FILE}
ReadArgs == {<<0, 0>>, <<0, DIRENT_SIZE>>, <<4, 40>>, <<DIRENT_SIZE, MaxWrite>>,
             <<500, 24>>, <<0, MaxWrite>>}

\* iget and ilock of inum, then inode.block_for(bn * BLK_SIZE)
FsBlockFor(inum, bn) ==
    /\ InCall
    /\ \E t \in {AndThen(iget(S0, inum), LAMBDA g : ilock(g, inum))} :
       \E s \in {AndThen(t, LAMBDA u : block_for(u, inum, bn * BLK_SIZE))} :
           FsApply(s, [fs EXCEPT
               !.call = [NoCall EXCEPT
                   !.op = "block_for", !.arg = bn, !.ret = s.ret,
                   !.prev = IF fs.call.op = "block_for" /\ panicked = ""
                            THEN fs.call.prev \cup {<<fs.call.arg, fs.call.ret>>}
                            ELSE {},
                   !.ino0 = t.ic[inum], !.ino1 = s.ic[inum],
                   !.bits1 = Bitmap(bread_data([s EXCEPT !.panic = ""],
                                               block_for_bitmap(0))),
                   !.seen0 = IF fs.call.op = "block_for"
                             THEN {e[2] : e \in {x \in fs.call.prev
                                                     \cup {<<fs.call.arg, fs.call.ret>>} :
                                                 x[1] = bn}}
                             ELSE {},
                   !.seen1 = IF s.panic = "" /\ bn >= NDIRECT
                             THEN {le_u32(Bytes(bread_data(s, s.ic[inum].addrs[NDIRECT])),
                                          4 * (bn - NDIRECT))}
                             ELSE {}]])

\* iget and ilock of inum, then readi(inode, dst, off, n)
FsReadi(inum, off, n) ==
    /\ InCall
    /\ \E t \in {AndThen(iget(S0, inum), LAMBDA g : ilock(g, inum))} :
       \E s \in {AndThen(t, LAMBDA u : readi(u, inum, off, n))} :
           /\ t.panic = "" /\ off <= t.ic[inum].size
           /\ FsApply(s, [fs EXCEPT
                  !.call = [NoCall EXCEPT
                      !.op = "readi", !.arg = <<inum, off, n>>, !.ret = s.ret,
                      !.ino0 = t.ic[inum], !.ino1 = s.ic[inum],
                      !.bits0 = Bitmap(bread_data(S0, block_for_bitmap(0))),
                      !.bits1 = Bitmap(bread_data([s EXCEPT !.panic = ""],
                                                  block_for_bitmap(0))),
                      !.seen0 = <<log.lh, disk>>, !.seen1 = <<s.log.lh, s.disk>>]])

\* The in-use entries of directory dinum, each with its slot, as a readi
\* of the whole directory returns them
dir_ents(s, dinum) ==
    Bind(readi([s EXCEPT !.panic = ""], dinum, 0, s.ic[dinum].size), LAMBDA r :
        {e \in {<<k, DirEnt(r.ret.dst, k * DIRENT_SIZE)>> :
                    k \in 0..(DirSlots(s.ic[dinum].size) - 1)} : e[2].inum # 0})

\* iget and ilock of the root directory, then dir_link(root, name, inum)
FsLink(name, inum) ==
    /\ InCall
    /\ \E t \in {AndThen(iget(S0, ROOT_INUM), LAMBDA g : ilock(g, ROOT_INUM))} :
       \E s \in {AndThen(t, LAMBDA u : dir_link(u, ROOT_INUM, name, inum))} :
           /\ t.panic = ""
           /\ FsApply(s, [fs EXCEPT
                  !.call = [NoCall EXCEPT
                      !.op = "dir_link", !.arg = [inum |-> inum, name |-> name],
                      !.ret = IF s.panic = "" THEN s.ret.ok ELSE FALSE,
                      !.ino0 = t.ic[ROOT_INUM], !.ino1 = s.ic[ROOT_INUM],
                      !.seen0 = dir_ents(t, ROOT_INUM),
                      !.seen1 = dir_ents(s, ROOT_INUM)]])

\* The paths resolved: absolute or relative, of up to two elements
PathElems == {<<>>, <<<<102>>>>, <<<<120>>>>, <<<<102>>, <<120>>>>, <<<<46>>, <<102>>>>,
              <<<<120>>, <<102>>>>}
PathOf(abs, elems) ==
    (IF abs THEN <<47>> ELSE <<>>)
        \o (IF elems = <<>> THEN <<>>
            ELSE elems[1] \o (IF Len(elems) > 1 THEN <<47>> \o elems[2] ELSE <<>>))

\* What a call path sees of inodes 1..3 when it locks them: the type and,
\* for a directory, the in-use entries
dir_view(s) ==
    [d \in 1..3 |->
        Bind(AndThen(iget([s EXCEPT !.panic = ""], d), LAMBDA g : ilock(g, d)), LAMBDA l :
            [typ |-> l.ic[d].typ,
             ents |-> IF l.ic[d].typ = "Dir" /\ l.panic = ""
                      THEN {<<e[2].name, e[2].inum>> : e \in dir_ents(l, d)}
                      ELSE {}])]

\* namex(path, does_want_parent, name) called by an environment whose
\* current directory is cwd (the handle it keeps came from iget)
FsNamex(abs, elems, does_want_parent, cwd) ==
    /\ InCall
    /\ \E s \in {AndThen(iget(S0, cwd), LAMBDA g :
                     namex([g EXCEPT !.cwd = cwd], PathOf(abs, elems),
                           does_want_parent, NoName))} :
           FsApply(s, [fs EXCEPT
               !.call = [NoCall EXCEPT
                   !.op = "namex",
                   !.arg = [abs |-> abs, elems |-> elems, wp |-> does_want_parent,
                            cwd |-> cwd],
                   !.ret = IF s.panic = "" THEN s.ret ELSE [ip |-> 0, name |-> NoName],
                   !.seen0 = dir_view(S0), !.seen1 = s.ev]])

NextFile ==
    \/ LogInit
    \/ RecoverInstall
    \/ RecoverClear
    \/ MountDone
    \/ log.outstanding = 0 /\ Admit
    \/ \E bn \in FileBns : FsBlockFor(3, bn)
    \/ \E a \in ReadArgs : \E i \in {ROOT_INUM, 3} : FsReadi(i, a[1], a[2])
    \/ FsWritei(3, MaxWrite)
    \/ \E cs \in LinkNames \cup RemoveNames : FsLink(NameBuf(cs), 2)

SpecFile == InitFs /\ [][NextFile]_vars

\* Path resolution alone, with names being linked into the root directory
NextPath ==
    \/ LogInit
    \/ RecoverInstall
    \/ RecoverClear
    \/ MountDone
    \/ log.outstanding = 0 /\ Admit
    \/ \E cs \in LinkNames : FsLink(NameBuf(cs), 2)
    \/ \E elems \in PathElems : \E wp \in BOOLEAN :
           \/ FsNamex(TRUE, elems, wp, ROOT_INUM)
           \/ FsNamex(FALSE, elems, wp, 2)

SpecPath == InitFs /\ [][NextPath]_vars

---------------------------------------------------------------------------
(* One RwLock shared by call paths that take and drop its guards.  read()  *)
(* and write() are loops of try_read and try_write_internal(false), so a   *)
(* call path that was refused is free to try again.                        *)

\* try_read: the fetch_add(READER), which returns the old word
RwTryReadAdd(t) ==
    /\ rw.pc[t] = "idle"
    /\ rw' = [rw EXCEPT !.lock = @ + READER, !.val[t] = rw.lock, !.pc[t] = "added"]
    /\ UNCHANGED <<calls, pipe, storage, once, files>>

\* try_read: the test of the old word; fetch_sub(READER) and None when it
\* had WRITER or UPGRADED, else the read guard
RwTryReadEnd(t) ==
    /\ rw.pc[t] = "added"
    /\ rw' = IF rw.val[t] % READER # 0
             THEN [rw EXCEPT !.lock = @ - READER, !.val[t] = 0, !.pc[t] = "idle"]
             ELSE [rw EXCEPT !.val[t] = 0, !.pc[t] = "r"]
    /\ UNCHANGED <<calls, pipe, storage, once, files>>

\* try_write, or one pass of the loop of write()
RwTryWrite(t) ==
    /\ rw.pc[t] = "idle"
    /\ \E spurious \in BOOLEAN :
       \E r \in {try_write_internal(rw.lock, spurious)} :
           rw' = [rw EXCEPT !.lock = r.lock, !.pc[t] = IF r.ok THEN "w" ELSE "idle"]
    /\ UNCHANGED <<calls, pipe, storage, once, files>>

\* Drop of a RwLockReadGuard: fetch_sub(READER)
RwDropRead(t) ==
    /\ rw.pc[t] = "r"
    /\ rw' = [rw EXCEPT !.lock = @ - READER, !.pc[t] = "idle"]
    /\ UNCHANGED <<calls, pipe, storage, once, files>>

\* Drop of a RwLockWriteGuard
RwDropWrite(t) ==
    /\ rw.pc[t] = "w"
    /\ rw' = [rw EXCEPT !.lock = drop_write(@), !.pc[t] = "idle"]
    /\ UNCHANGED <<calls, pipe, storage, once, files>>

NextRw ==
    \/ \E t \in Threads : RwTryReadAdd(t)
    \/ \E t \in Threads : RwTryReadEnd(t)
    \/ \E t \in Threads : RwTryWrite(t)
    \/ \E t \in Threads : RwDropRead(t)
    \/ \E t \in Threads : RwDropWrite(t)

SpecRw == InitLog /\ [][NextRw]_vars

---------------------------------------------------------------------------
(* One Once cell and call paths that call call_once on it, one atomic      *)
(* access per step.  The builder of the n-th run produces the value n.     *)

\* call_once: `status = self.state.load()`, on entry and in the loop while
\* status is RUNNING
OnceLoad(t) ==
    /\ \/ once.pc[t] = "idle"
       \/ once.pc[t] = "loop" /\ once.status[t] = RUNNING
    /\ once' = [once EXCEPT !.status[t] = once.cell.state,
                            !.pc[t] = IF once.pc[t] = "idle" /\ once.cell.state = INCOMPLETE
                                      THEN "cas" ELSE "loop"]
    /\ UNCHANGED <<calls, pipe, storage, rw, files>>

\* call_once: `status = compare_and_swap(INCOMPLETE, RUNNING)`; what follows
\* does not look at status
OnceCas(t) ==
    /\ once.pc[t] = "cas"
    /\ once' = [once EXCEPT !.status[t] = once.cell.state,
                            !.cell.state = IF @ = INCOMPLETE THEN RUNNING ELSE @,
                            !.pc[t] = "build"]
    /\ UNCHANGED <<calls, pipe, storage, rw, files>>

\* call_once: `*self.data.get() = Some(builder())`
OnceBuild(t) ==
    /\ once.pc[t] = "build"
    /\ once' = [once EXCEPT !.built = @ + 1, !.cell.data = once.built + 1,
                            !.pc[t] = "store"]
    /\ UNCHANGED <<calls, pipe, storage, rw, files>>

\* call_once: store(COMPLETE) and `return self.force_get()`
OnceStore(t) ==
    /\ once.pc[t] = "store"
    /\ once' = [once EXCEPT !.cell.state = COMPLETE, !.status[t] = COMPLETE,
                            !.got[t] = once.cell.data, !.pc[t] = "done"]
    /\ UNCHANGED <<calls, pipe, storage, rw, files>>

\* call_once: the loop with status COMPLETE, `return self.force_get()`
OnceGet(t) ==
    /\ once.pc[t] = "loop" /\ once.status[t] = COMPLETE
    /\ once' = [once EXCEPT !.got[t] = once.cell.data, !.pc[t] = "done"]
    /\ UNCHANGED <<calls, pipe, storage, rw, files>>

NextOnce ==
    \/ \E t \in Threads : OnceLoad(t)
    \/ \E t \in Threads : OnceCas(t)
    \/ \E t \in Threads : OnceBuild(t)
    \/ \E t \in Threads : OnceStore(t)
    \/ \E t \in Threads : OnceGet(t)

SpecOnce == InitLog /\ [][NextOnce]_vars

---------------------------------------------------------------------------
(* open(path, mode) called by the current process for an existing regular  *)
(* file (namei returns its inode, nlink >= 1, is_dir false), with no other *)
(* file-system call in progress.  begin_op is followed for the pass of its *)
(* loop that admits the operation.  rw is the RwLock of the file's inode.  *)

InitOpen ==
    /\ InitKernel(Disk0, "log_init")
    /\ rw = Rw0
    /\ once = Once0
    /\ pipe = Pipe0
    /\ calls = Calls0
    /\ \E f \in (NFILE_PER_ENV - MaxFree)..NFILE_PER_ENV :
       \E t \in {f} \cup ((NFILE - MaxFree)..NFILE) :
           files = FilesAt(t, f)

\* open: begin_op and namei
OpenBegin ==
    /\ Running /\ files.pc = "idle" /\ logLock = 0
    /\ log' = begin_op(log)
    /\ log'.outstanding > log.outstanding
    /\ files' = [files EXCEPT !.pc = "ilock", !.ent = -1, !.err = "", !.ret = "",
                              !.ft0 = files.ft, !.out0 = log.outstanding]
    /\ UNCHANGED <<calls, pipe, wlog, rw, once, disk, cache, bcLock, logLock, pc, held, cstep, kpc,
                   panicked, incs, txnW, pre, phase, crashPhase, runs, snap, mountDisk,
                   handles, fs>>

\* open: `let inode = fs::ilock(&ip)`, one pass of the loop of ip.write()
OpenIlock ==
    /\ Running /\ files.pc = "ilock"
    /\ \E spurious \in BOOLEAN :
       \E r \in {try_write_internal(rw.lock, spurious)} :
           /\ rw' = [rw EXCEPT !.lock = r.lock, !.pc[1] = IF r.ok THEN "w" ELSE @]
           /\ files' = [files EXCEPT !.pc = IF r.ok THEN "alloc" ELSE @]
    /\ UNCHANGED <<calls, pipe, storage, once>>

\* open: file_table(), alloc_as_inode and, for Some(ent), fd_alloc(ent)
OpenAlloc ==
    /\ Running /\ files.pc = "alloc"
    /\ \E a \in {alloc_as_inode(files.ft)} :
       \E d \in {fd_alloc(files.ofile, a.index)} :
           files' = IF ~a.some
                    THEN [files EXCEPT !.err = "TooManyFiles", !.pc = "iunlock"]
                    ELSE IF ~d.ok
                    THEN [files EXCEPT !.ft = a.ft, !.ent = a.index, !.pc = "close"]
                    ELSE [files EXCEPT !.ft = a.ft, !.ent = a.index, !.ofile = d.ofile,
                                       !.pc = "iunlock"]
    /\ UNCHANGED <<calls, pipe, storage, rw, once>>

\* FileTable::close(ent) called by open: the count is 2 (the table and ent),
\* the file is an inode file; up to the return of its begin_op
OpenClose ==
    /\ Running /\ files.pc = "close" /\ logLock = 0
    /\ files.ft[files.ent] + 1 = 2
    /\ log' = begin_op(log)
    /\ log'.outstanding > log.outstanding
    /\ files' = [files EXCEPT !.pc = "close_iput"]
    /\ UNCHANGED <<calls, pipe, wlog, rw, once, disk, cache, bcLock, logLock, pc, held, cstep, kpc,
                   panicked, incs, txnW, pre, phase, crashPhase, runs, snap, mountDisk,
                   handles, fs>>

\* FileTable::close: fs::iput(ip), one pass of the loop of its ip.write();
\* with the guard, iput returns (nlink >= 1) and drops it, end_op,
\* files[ind] = None
OpenCloseIput ==
    /\ Running /\ files.pc = "close_iput" /\ logLock = 0
    /\ \E spurious \in BOOLEAN :
       \E r \in {try_write_internal(rw.lock, spurious)} :
           IF r.ok
           THEN /\ rw' = [rw EXCEPT !.lock = drop_write(r.lock)]
                /\ log' = [log EXCEPT !.outstanding = @ - 1]
                /\ files' = [files EXCEPT !.ft[files.ent] = 0,
                                          !.err = "TooManyFileDescriptors",
                                          !.pc = "iunlock"]
           ELSE UNCHANGED <<rw, log, files>>
    /\ UNCHANGED <<calls, pipe, wlog, once, disk, cache, bcLock, logLock, pc, held, cstep, kpc,
                   panicked, incs, txnW, pre, phase, crashPhase, runs, snap, mountDisk,
                   handles, fs>>

\* open: iunlock(inode), on the error paths fs::iput(ip), end_op (lh.n = 0:
\* commit writes nothing) and the return
OpenReturn ==
    /\ Running /\ files.pc = "iunlock" /\ logLock = 0
    /\ rw' = [rw EXCEPT !.lock = drop_write(@), !.pc[1] = "idle"]
    /\ files.err # "" => try_write_internal(rw'.lock, FALSE).ok
    /\ log.lh.n = 0
    /\ log' = [log EXCEPT !.outstanding = @ - 1]
    /\ files' = [files EXCEPT !.ret = IF files.err = "" THEN "Ok" ELSE files.err,
                              !.pc = "idle"]
    /\ UNCHANGED <<calls, pipe, wlog, once, disk, cache, bcLock, logLock, pc, held, cstep, kpc,
                   panicked, incs, txnW, pre, phase, crashPhase, runs, snap, mountDisk,
                   handles, fs>>

NextOpen ==
    \/ LogInit
    \/ RecoverInstall
    \/ RecoverClear
    \/ MountDone
    \/ OpenBegin
    \/ OpenIlock
    \/ OpenAlloc
    \/ OpenClose
    \/ OpenCloseIput
    \/ OpenReturn

\* A call path that can take a step takes one: a CPU runs it.
SpecOpen == InitOpen /\ [][NextOpen]_vars /\ WF_vars(NextOpen)

---------------------------------------------------------------------------
(* skip_elem applied to paths (the characters up to the NUL) and to name   *)
(* buffers with earlier contents.                                          *)

MaxPath == 4        \* length of the paths enumerated in full
PathChars == {47, 97, 98}
SkipPaths ==
    UNION {[1..n -> PathChars] : n \in 0..MaxPath}
        \cup {<<97, 47, 98, 98, 47, 99>>, <<47, 47, 47, 97, 47, 47, 98, 98>>}
        \cup {[i \in 1..n |-> 97] \o t :
                 n \in (DIR_SIZ - 1)..(DIR_SIZ + 1), t \in {<<>>, <<47, 47, 98>>}}
SkipNames == {NoName, [i \in 0..(DIR_SIZ - 1) |-> 120]}

\* One call skip_elem(path, name)
SkipElem(path, name) ==
    /\ fs' = [fs EXCEPT !.call = [NoCall EXCEPT !.op = "skip_elem",
                                                !.arg = [path |-> path, name |-> name],
                                                !.ret = skip_elem(path, name)]]
    /\ UNCHANGED <<wlog, kobjs, disk, cache, log, bcLock, logLock, pc, held, cstep, kpc,
                   panicked, incs, txnW, pre, phase, crashPhase, runs, snap, mountDisk,
                   handles>>

NextSkip == \E path \in SkipPaths : \E name \in SkipNames : SkipElem(path, name)

SpecSkip == InitFs /\ [][NextSkip]_vars

---------------------------------------------------------------------------
(* One pipe, written and read by the two processes that hold its ends.     *)
(* Every call is made under the write guard of the pipe's RwLock, so the   *)
(* calls are atomic steps.                                                 *)

PipeStarts == {u32(0, 0), u32(W16 - 1, W16 - PIPE_SIZE - 2), u32(W16 - 1, W16 - 2)}
PipeWriteLens == {1, 2, PIPE_SIZE - 1, PIPE_SIZE + 1}
PipeReadLens == {1, PIPE_SIZE}

InitPipe ==
    /\ InitKernel(Disk0, "log_init")
    /\ rw = Rw0
    /\ once = Once0
    /\ files = FilesAt(0, 0)
    /\ calls = Calls0
    /\ \E k \in PipeStarts : \E c \in BOOLEAN : pipe = PipeAt(k, c)

\* File::write on the write end: Pipe::write of the next n bytes
PipeWrite(n) ==
    /\ panicked = "" /\ pipe.p.write_open /\ pipe.calls < MaxPipeCalls
    /\ \E r \in {Pipe_write(pipe.p, [i \in 1..n |-> PipeSrc(pipe.gw + i - 1)], n,
                            pipe.checked)} :
           /\ pipe' = [pipe EXCEPT
                  !.p = r.p, !.calls = @ + 1,
                  !.gw = IF r.err = "" /\ r.panic = "" THEN @ + n ELSE @,
                  !.last = [NoPipeCall EXCEPT
                               !.op = "write", !.n = n, !.ret = r.ret, !.err = r.err,
                               !.same = (r.p = pipe.p),
                               !.unread0 = pipe.gw - pipe.gr,
                               !.ro0 = pipe.p.read_open, !.gr0 = pipe.gr]]
           /\ panicked' = r.panic
    /\ UNCHANGED <<calls, wlog, rw, once, files, disk, cache, log, bcLock, logLock, pc, held,
                   cstep, kpc, incs, txnW, pre, phase, crashPhase, runs, snap, mountDisk,
                   handles, fs>>

\* File::read on the read end: Pipe::read of up to n bytes
PipeRead(n) ==
    /\ panicked = "" /\ pipe.p.read_open /\ pipe.calls < MaxPipeCalls
    /\ \E r \in {Pipe_read(pipe.p, n, pipe.checked)} :
           /\ pipe' = [pipe EXCEPT
                  !.p = r.p, !.calls = @ + 1,
                  !.gr = IF r.err = "" /\ r.panic = "" THEN @ + r.ret ELSE @,
                  !.last = [NoPipeCall EXCEPT
                               !.op = "read", !.n = n, !.ret = r.ret, !.err = r.err,
                               !.out = r.out, !.same = (r.p = pipe.p),
                               !.unread0 = pipe.gw - pipe.gr,
                               !.ro0 = pipe.p.read_open, !.gr0 = pipe.gr]]
           /\ panicked' = r.panic
    /\ UNCHANGED <<calls, wlog, rw, once, files, disk, cache, log, bcLock, logLock, pc, held,
                   cstep, kpc, incs, txnW, pre, phase, crashPhase, runs, snap, mountDisk,
                   handles, fs>>

\* FileTable::close of the last reference to one end: pipe::close
PipeClose(writable) ==
    /\ panicked = "" /\ pipe.calls < MaxPipeCalls
    /\ IF writable THEN pipe.p.write_open ELSE pipe.p.read_open
    /\ pipe' = [pipe EXCEPT !.p = Pipe_close(@, writable), !.last = NoPipeCall,
                            !.calls = @ + 1]
    /\ UNCHANGED <<calls, storage, rw, once, files>>

NextPipe ==
    \/ \E n \in PipeWriteLens : PipeWrite(n)
    \/ \E n \in PipeReadLens : PipeRead(n)
    \/ \E w \in BOOLEAN : PipeClose(w)

SpecPipe == InitPipe /\ [][NextPipe]_vars

---------------------------------------------------------------------------
(* File::write on a file opened on inode 3 for writing, with no other      *)
(* file-system call in progress.  begin_op is followed for the pass of its *)
(* loop that admits the operation; end_op runs the whole commit.  s.ev     *)
(* records begin_op, the arguments of writei and end_op in order.          *)

\* let max = ((MAX_OP_BLOCKS - 1 - 1 - 2) / 2) * 512
FileWriteMax == ((MAX_OP_BLOCKS - 1 - 1 - 2) \div 2) * 512
FileWriteLens == {0, 1, 2, BLK_SIZE, FileWriteMax, FileWriteMax + 1}

\* write_log
write_log(c, d, l) ==
    LET after[t \in 0..l.lh.n] ==
            IF t = 0
            THEN [cache |-> c, disk |-> d, panic |-> ""]
            ELSE Bind(after[t - 1], LAMBDA a :
                 Bind(write_log_pass(a.cache, a.disk, l, t - 1), LAMBDA r :
                     [cache |-> r.cache, disk |-> r.disk,
                      panic |-> FirstPanic(<<a.panic, r.panic>>)]))
    IN  after[l.lh.n]

\* The machine state after f, one of write_log, write_head, install_trans
commit_step(s, f(_, _, _)) ==
    Bind(f(s.cache, s.disk, s.log), LAMBDA r :
        [s EXCEPT !.cache = r.cache, !.disk = r.disk, !.panic = r.panic])

\* end_op: outstanding -= 1 and, at 0, commit
end_op(s) ==
    Bind([s EXCEPT !.log.outstanding = @ - 1], LAMBDA t :
        IF t.log.outstanding # 0 \/ t.log.lh.n = 0 THEN t
        ELSE AndThen(commit_step(t, write_log), LAMBDA a :
             AndThen(commit_step(a, write_head), LAMBDA b :
             AndThen(commit_step(b, install_trans), LAMBDA c :
                 commit_step([c EXCEPT !.log.lh.n = 0], write_head)))))

\* File::write(addr, n) on an inode file f; ret is [i, off]: Ok(n) is
\* returned when the loop ends, which is with i >= n
File_write(s, f, src, n) ==
    LET pass[k \in 0..(n \div FileWriteMax + 1)] ==
            IF k = 0 THEN [s EXCEPT !.ret = [i |-> 0, off |-> f.off]]
            ELSE AndThen(pass[k - 1], LAMBDA a :
                 IF a.ret.i >= n THEN a
                 ELSE Bind(IF n - a.ret.i > FileWriteMax THEN FileWriteMax
                           ELSE n - a.ret.i, LAMBDA n1 :
                      AndThen(ilock([a EXCEPT !.log = begin_op(@),
                                              !.ev = Append(@, <<"begin_op">>)],
                                    f.ip), LAMBDA l :
                      AndThen(writei([l EXCEPT
                                         !.ev = Append(@, <<"writei", 0, a.ret.off, n>>)],
                                     f.ip, src, a.ret.off, n), LAMBDA w :
                      AndThen(end_op([w EXCEPT !.ev = Append(@, <<"end_op">>)]), LAMBDA e :
                          IF w.ret # n1 THEN Halt(e, "File::write: short file write")
                          ELSE [e EXCEPT !.ret = [i |-> a.ret.i + w.ret,
                                                  off |-> a.ret.off + w.ret]])))))
    IN  pass[n \div FileWriteMax + 1]

\* open of inode 3 for writing: the File starts at offset 0
FileOpen ==
    /\ Running /\ fs.file.ip = 0 /\ log.outstanding = 0
    /\ \E s \in {iget(S0, 3)} :
           /\ panicked' = s.panic
           /\ fs' = [fs EXCEPT !.icache = s.ic, !.icn = s.icn, !.nops = 0,
                               !.file = [ip |-> 3, off |-> 0]]
    /\ UNCHANGED <<wlog, kobjs, cache, disk, log, bcLock, logLock, pc, held, cstep, kpc,
                   incs, txnW, pre, phase, crashPhase, runs, snap, mountDisk, handles>>

\* One call File::write(addr, n), addr holding the bytes Src(n)
FileWrite(n) ==
    /\ Running /\ fs.file.ip # 0 /\ fs.nops < MaxOps
    /\ pc[1] = "idle" /\ bcLock = 0 /\ logLock = 0 /\ log.outstanding = 0
    /\ \E s \in {File_write(S0, fs.file, Src(n), n)} :
           FsApply(s, [fs EXCEPT
               !.file.off = IF s.panic = "" THEN s.ret.off ELSE @,
               !.call = [NoCall EXCEPT
                   !.op = "File::write", !.arg = [n |-> n, off |-> fs.file.off],
                   !.ret = IF s.panic = "" THEN n ELSE -1,
                   !.n0 = log.outstanding, !.seen1 = s.ev]])

NextWrite ==
    \/ LogInit
    \/ RecoverInstall
    \/ RecoverClear
    \/ MountDone
    \/ FileOpen
    \/ \E n \in FileWriteLens : FileWrite(n)

SpecWrite == InitFs /\ [][NextWrite]_vars

---------------------------------------------------------------------------
(* Reads that follow a write inside one transaction: ialloc followed by    *)
(* ilock of the inode it returned, as fs_test does, and writei followed by *)
(* readi of the same range.                                                *)

\* ialloc's loop up to bcache.release(bp) of the iteration that finds the
\* first inode from 1 whose type on disk is Empty; ret is its number, 0
\* when the loop ran out
ialloc_scan(s, typ, major, minor) ==
    LET scan[k \in 0..(SB.ninodes - 1)] ==
            IF k = 0 THEN [s EXCEPT !.ret = 0]
            ELSE AndThen(scan[k - 1], LAMBDA a :
                 IF a.ret # 0 THEN a
                 ELSE AndThen(get_read(a, block_for_inode(k)), LAMBDA t :
                      IF DInodes(t.cache[t.ret].data)[k % IPB].typ = "Empty"
                      THEN AndThen(fs_log_write(
                               [t EXCEPT !.cache[t.ret].data =
                                   InodeBlk([DInodes(@) EXCEPT ![k % IPB] =
                                       [DInode_zero EXCEPT !.typ = typ, !.major = major,
                                                           !.minor = minor, !.nlink = 1]])],
                               t.ret), LAMBDA w :
                           AndThen(fs_release(w, block_for_inode(k)), LAMBDA r :
                               [r EXCEPT !.ret = k]))
                      ELSE fs_release([t EXCEPT !.ret = 0], block_for_inode(k))))
    IN  AndThen(scan[SB.ninodes - 1], LAMBDA z :
            IF z.ret = 0 THEN Halt(z, "ialloc: no inodes") ELSE z)

\* ialloc(dev, typ, major, minor): the loop, then `return iget(dev, inum)`
ialloc(s, typ, major, minor) ==
    AndThen(ialloc_scan(s, typ, major, minor), LAMBDA z : iget(z, z.ret))

IallocTypes == {"Dir", "File", "Dev"}
IallocMajors == {0, 98}
IallocMinors == {0, 99}

\* let idir = ialloc(dev, typ, major, minor); let idir = ilock(&idir);
FsIallocIlock(typ, major, minor) ==
    /\ InTxn
    /\ \E a \in {ialloc(S0, typ, major, minor)} :
       \E s \in {AndThen(a, LAMBDA u : ilock(u, u.ret))} :
           FsApply(s, [fs EXCEPT
               !.call = [NoCall EXCEPT
                   !.op = "ialloc", !.arg = [typ |-> typ, major |-> major, minor |-> minor],
                   !.ret = a.ret,
                   !.ino1 = IF a.panic = "" THEN s.ic[a.ret] ELSE NoInode]])

\* iget and ilock of inum, writei(inode, src, off, n), readi(inode, dst, off, n)
FsWriteiReadi(inum, n) ==
    /\ InTxn
    /\ \E t \in {AndThen(iget(S0, inum), LAMBDA g : ilock(g, inum))} :
       \E off \in {0, t.ic[inum].size} :
       \E w \in {AndThen(t, LAMBDA u : writei(u, inum, Src(n), off, n))} :
       \E s \in {AndThen(w, LAMBDA u : readi(u, inum, off, n))} :
           /\ t.panic = ""
           /\ FsApply(s, [fs EXCEPT
                  !.call = [NoCall EXCEPT
                      !.op = "writei_readi", !.arg = [inum |-> inum, off |-> off, n |-> n],
                      !.ret = IF s.panic = "" THEN s.ret ELSE [n |-> -1, dst |-> NoBytes],
                      !.n0 = w.ret]])

NextSeen ==
    \/ LogInit
    \/ RecoverInstall
    \/ RecoverClear
    \/ MountDone
    \/ FsBeginOp
    \/ \E typ \in IallocTypes, major \in IallocMajors, minor \in IallocMinors :
           FsIallocIlock(typ, major, minor)
    \/ \E inum \in {2, 3}, n \in WriteLens : FsWriteiReadi(inum, n)
    \/ EndOp(1)
    \/ WriteLogPass(1)
    \/ WriteHeadCommit(1)
    \/ InstallPass(1)
    \/ WriteHeadErase(1)

SpecSeen == InitFs /\ [][NextSeen]_vars

---------------------------------------------------------------------------
(* iput of the last handle to an unlinked file, followed lock by lock.     *)
(* The image holds a file, inode 4, of 0..MaxFileBlocks blocks; past       *)
(* NDIRECT blocks it has an indirect block.  BUF_CACHE is a spin Mutex     *)
(* (buf.rs:175-179): a call of buf_cache() waits until the lock is free.   *)

MaxFileBlocks == 14
TruncBlock0 == RootBlock + 3
TruncIndirect == TruncBlock0 + NDIRECT
\* The blocks of a file of nb blocks: data blocks and the indirect block
TruncBlocks(nb) ==
    {TruncBlock0 + i : i \in 0..(Min({nb, NDIRECT}) - 1)}
        \cup (IF nb > NDIRECT
              THEN {TruncIndirect} \cup {TruncIndirect + 1 + j : j \in 0..(nb - NDIRECT - 1)}
              ELSE {})
DiskTrunc(nb) ==
    [b \in BlockNos |->
        IF b = SB.inode_start
        THEN InodeBlk([ImageInodes EXCEPT ![4] =
                 [DInode_zero EXCEPT
                     !.typ = "File", !.nlink = 1, !.size = nb * BLK_SIZE,
                     !.addrs = [i \in 0..NDIRECT |->
                                   IF i < NDIRECT /\ i < nb THEN TruncBlock0 + i
                                   ELSE IF i = NDIRECT /\ nb > NDIRECT THEN TruncIndirect
                                   ELSE 0]]])
        ELSE IF b = SB.bmap_start THEN BitmapBlk(0..(RootBlock + 1) \cup TruncBlocks(nb))
        ELSE IF b = TruncIndirect /\ nb > NDIRECT
        THEN BytesBlk([i \in 0..(BLK_SIZE - 1) |->
                 IF i \div 4 < nb - NDIRECT /\ i % 4 = 0 THEN TruncIndirect + 1 + i \div 4
                 ELSE 0])
        ELSE DiskFs[b]]

InitTrunc == \E nb \in 0..MaxFileBlocks : InitAt(DiskTrunc(nb), "log_init")

\* itrunc: the loop over the direct blocks
itrunc_direct(s, inum) ==
    LET pass[k \in 0..NDIRECT] ==
            IF k = 0 THEN s
            ELSE AndThen(pass[k - 1], LAMBDA a :
                     IF a.ic[inum].addrs[k - 1] > 0
                     THEN AndThen(bfree(a, a.ic[inum].addrs[k - 1]), LAMBDA b :
                              [b EXCEPT !.ic[inum].addrs[k - 1] = 0])
                     ELSE a)
    IN  pass[NDIRECT]

\* itrunc: the branch for the indirect block, from its bcache.get on
itrunc_indirect(s, inum) ==
    AndThen(get_read(s, s.ic[inum].addrs[NDIRECT]), LAMBDA t :
    Bind(Bytes(t.cache[t.ret].data), LAMBDA a :
        LET pass[k \in 0..NINDIRECT] ==
                IF k = 0 THEN t
                ELSE AndThen(pass[k - 1], LAMBDA p :
                         IF le_u32(a, 4 * (k - 1)) > 0 THEN bfree(p, le_u32(a, 4 * (k - 1)))
                         ELSE p)
        IN  AndThen(pass[NINDIRECT], LAMBDA u :
            AndThen(fs_release(u, s.ic[inum].addrs[NDIRECT]), LAMBDA v :
            AndThen(bfree(v, s.ic[inum].addrs[NDIRECT]), LAMBDA w :
                [w EXCEPT !.ic[inum].addrs[NDIRECT] = 0])))))

\* The end of itrunc (size = 0, iupdate) and the rest of iput
iput_finish(s, inum) ==
    AndThen(iupdate([s EXCEPT !.ic[inum].size = 0], [s.ic[inum] EXCEPT !.size = 0]), LAMBDA t :
    AndThen(iupdate([t EXCEPT !.ic[inum].typ = "Empty"],
                    [t.ic[inum] EXCEPT !.typ = "Empty"]), LAMBDA u :
        [u EXCEPT !.ret = [u.ic[inum] EXCEPT !.valid = FALSE], !.ic[inum] = NoInode]))

\* The state after a step of the call path: s the machine state, f the
\* record, p where the call path is, l the holder of the BUF_CACHE lock
TruncApply(s, f, p, l) ==
    /\ cache' = s.cache
    /\ disk' = s.disk
    /\ log' = s.log
    /\ panicked' = s.panic
    /\ fs' = [f EXCEPT !.icache = s.ic, !.icn = s.icn]
    /\ pc' = [pc EXCEPT ![1] = p]
    /\ bcLock' = l
    /\ UNCHANGED <<wlog, kobjs, logLock, held, cstep, kpc, incs, txnW, pre, phase,
                   crashPhase, runs, snap, mountDisk, handles>>

\* unlink's last steps on the file: ilock, nlink -= 1, iupdate, iunlock;
\* the handle is kept for iput
TruncUnlink(inum) ==
    /\ InTxn /\ ~fs.icache[inum].some
    /\ \E s \in {AndThen(iget(S0, inum), LAMBDA g :
                 AndThen(ilock(g, inum), LAMBDA t :
                     iupdate([t EXCEPT !.ic[inum].nlink = @ - 1],
                             [t.ic[inum] EXCEPT !.nlink = @ - 1])))} :
           TruncApply(s, [fs EXCEPT !.call = [NoCall EXCEPT !.op = "unlink", !.arg = inum]],
                      "idle", 0)

\* iput(ip) up to the end of itrunc's first loop
IputDirect(inum) ==
    /\ InTxn /\ fs.icache[inum].valid /\ fs.icache[inum].nlink = 0
    /\ \E s \in {itrunc_direct(S0, inum)} :
           TruncApply(s, [fs EXCEPT
                  !.call = [NoCall EXCEPT
                      !.op = "iput", !.arg = inum, !.ret = 0,
                      !.ino0 = fs.icache[inum],
                      !.prev = {fs.icache[inum].addrs[i] : i \in 0..NDIRECT} \ {0},
                      !.bits0 = Bitmap(bread_data(S0, block_for_bitmap(0)))]],
              "itrunc_indirect", 0)

\* `if inode.addrs[NDIRECT] > 0`, false: the end of itrunc and of iput
IputNoIndirect(inum) ==
    /\ Running /\ pc[1] = "itrunc_indirect" /\ fs.call.arg = inum
    /\ fs.icache[inum].addrs[NDIRECT] = 0
    /\ \E s \in {iput_finish(S0, inum)} :
           TruncApply(s, [fs EXCEPT
                  !.call.ret = 1,
                  !.call.ino1 = IF s.panic = "" THEN s.ret ELSE NoInode,
                  !.call.bits1 = Bitmap(bread_data([s EXCEPT !.panic = ""],
                                                   block_for_bitmap(0)))],
              "idle", 0)

\* `let mut bcache = buf::buf_cache()` in the branch for the indirect block
ItruncLock(inum) ==
    /\ Running /\ pc[1] = "itrunc_indirect" /\ fs.call.arg = inum
    /\ fs.icache[inum].addrs[NDIRECT] > 0
    /\ bcLock = 0
    /\ TruncApply(S0, fs, "itrunc_bfree", 1)

\* The next buf_cache() of the branch, in bfree: the lock is taken when
\* free and the call spins while it is held; then the rest of iput
ItruncBfree(inum) ==
    /\ Running /\ pc[1] = "itrunc_bfree" /\ fs.call.arg = inum
    /\ IF bcLock = 0
       THEN \E s \in {AndThen(itrunc_indirect(S0, inum), LAMBDA t : iput_finish(t, inum))} :
                TruncApply(s, [fs EXCEPT
                       !.call.ret = 1,
                       !.call.ino1 = IF s.panic = "" THEN s.ret ELSE NoInode,
                       !.call.bits1 = Bitmap(bread_data([s EXCEPT !.panic = ""],
                                                        block_for_bitmap(0)))],
                   "idle", 0)
       ELSE UNCHANGED vars

NextTrunc ==
    \/ LogInit
    \/ RecoverInstall
    \/ RecoverClear
    \/ MountDone
    \/ FsBeginOp
    \/ TruncUnlink(4)
    \/ IputDirect(4)
    \/ IputNoIndirect(4)
    \/ ItruncLock(4)
    \/ ItruncBfree(4)

SpecTrunc == InitTrunc /\ [][NextTrunc]_vars /\ WF_vars(NextTrunc)

---------------------------------------------------------------------------
(* The system calls of sysfile.rs that open a transaction, each run from   *)
(* its begin_op to its return with no other call in progress.  The image   *)
(* holds a directory "d" (inode 2) in the root directory, with ".", ".."   *)
(* and the entries of one of four layouts.  s.ev records the calls of      *)
(* begin_op and end_op; ret is [ok, err, ip].                              *)

DirLayouts == {"empty", "hole", "full", "holefull"}
DotName == NameBuf(<<46>>)
DotDotName == NameBuf(<<46, 46>>)
DirEntsOf(k) ==
    <<[inum |-> 2, name |-> DotName], [inum |-> ROOT_INUM, name |-> DotDotName]>>
        \o (IF k \in {"hole", "holefull"} THEN <<[inum |-> 0, name |-> NameBuf(<<104>>)]>>
            ELSE <<>>)
        \o (IF k \in {"full", "holefull"} THEN <<[inum |-> 3, name |-> NameBuf(<<103>>)]>>
            ELSE <<>>)
SysRootEnts == RootEnts \o <<[inum |-> 2, name |-> NameBuf(<<100>>)]>>
DirBlock == RootBlock + 3
EntBytes(ents) ==
    [i \in 0..(BLK_SIZE - 1) |->
        IF i < Len(ents) * DIRENT_SIZE
        THEN as_u8_ptr(ents[i \div DIRENT_SIZE + 1])[i % DIRENT_SIZE]
        ELSE 0]
DiskDirs(k) ==
    [b \in BlockNos |->
        IF b = SB.inode_start
        THEN InodeBlk([ImageInodes EXCEPT
                 ![ROOT_INUM] = [@ EXCEPT !.nlink = 2,
                                          !.size = Len(SysRootEnts) * DIRENT_SIZE],
                 ![2] = [@ EXCEPT !.size = Len(DirEntsOf(k)) * DIRENT_SIZE,
                                  !.addrs = [NoAddrs EXCEPT ![0] = DirBlock]],
                 ![3] = [@ EXCEPT !.nlink = IF k \in {"full", "holefull"} THEN 2 ELSE 1]])
        ELSE IF b = SB.bmap_start THEN BitmapBlk(0..(RootBlock + 1) \cup {DirBlock})
        ELSE IF b = RootBlock THEN BytesBlk(EntBytes(SysRootEnts))
        ELSE IF b = DirBlock THEN BytesBlk(EntBytes(DirEntsOf(k)))
        ELSE DiskFs[b]]

InitSys == \E k \in DirLayouts : InitAt(DiskDirs(k), "log_init")

Ret(s, ok, err, ip) == [s EXCEPT !.ret = [ok |-> ok, err |-> err, ip |-> ip]]
sys_begin_op(s) == [s EXCEPT !.log = begin_op(@), !.ev = Append(@, <<"begin_op">>)]

\* end_op with outstanding a usize: at 0 the subtraction halts the kernel
\* in a build with overflow checks and wraps in a build without; the
\* wrapped value usize::MAX is written -1, its reading as a signed word
end_op_usize(s, checked) ==
    Bind([s EXCEPT !.ev = Append(@, <<"end_op">>)], LAMBDA t :
        IF t.log.outstanding > 0 THEN end_op(t)
        ELSE IF t.log.outstanding = 0 /\ checked
        THEN Halt(t, "attempt to subtract with overflow")
        ELSE [t EXCEPT !.log.outstanding = @ - 1])

\* is_dir_empty; ret is the bool
is_dir_empty(s, inum) ==
    IF s.ic[inum].typ # "Dir" THEN Halt(s, "assertion failed: dp.typ == InodeType::Dir")
    ELSE LET scan[k \in 1..Max({2, DirSlots(s.ic[inum].size)})] ==
                 IF k <= 2 THEN [s EXCEPT !.ret = TRUE]
                 ELSE AndThen(scan[k - 1], LAMBDA a :
                      IF ~a.ret THEN a
                      ELSE AndThen(readi(a, inum, (k - 1) * DIRENT_SIZE, DIRENT_SIZE),
                                   LAMBDA r :
                           IF r.ret.n # DIRENT_SIZE
                           THEN Halt(r, "is_dir_empty: failed to readi")
                           ELSE [r EXCEPT !.ret = DirEnt(r.ret.dst, 0).inum = 0]))
         IN  scan[Max({2, DirSlots(s.ic[inum].size)})]

\* unlink(path)
unlink(s, path, checked) ==
    AndThen(namex(sys_begin_op(s), path, TRUE, NoName), LAMBDA np :
    IF np.ret.ip = 0 THEN Ret(end_op_usize(np, checked), FALSE, "InvalidArg", 0)
    ELSE Bind(np.ret.ip, LAMBDA dp :
         Bind(np.ret.name, LAMBDA name :
         AndThen(ilock(np, dp), LAMBDA d :
         IF name = DotName \/ name = DotDotName
         THEN Ret(end_op_usize(d, checked), FALSE, "InvalidArg", 0)
         ELSE AndThen(dir_lookup_with_name(d, dp, name), LAMBDA lk :
         IF lk.ret.ip = 0
         THEN AndThen(iput(lk, dp), LAMBDA u :
                  Ret(end_op_usize(u, checked), FALSE, "NoEnt", 0))
         ELSE Bind(lk.ret.ip, LAMBDA ip :
         AndThen(ilock(lk, ip), LAMBDA i :
         IF i.ic[ip].nlink < 1 THEN Halt(i, "unlink: nlink < 1")
         ELSE AndThen(IF i.ic[ip].typ = "Dir" THEN is_dir_empty(i, ip)
                      ELSE [i EXCEPT !.ret = FALSE], LAMBDA e :
         IF e.ret
         THEN AndThen(iput(e, dp), LAMBDA u :
                  Ret(end_op_usize(u, checked), FALSE, "InvalidArg", 0))
         ELSE AndThen(writei(e, dp, as_u8_ptr(DirEnt_empty), lk.ret.off, DIRENT_SIZE),
                      LAMBDA w :
         IF w.ret # DIRENT_SIZE THEN Halt(w, "unlink: failed to writei")
         ELSE AndThen(IF w.ic[ip].typ = "Dir"
                      THEN iupdate([w EXCEPT !.ic[dp].nlink = @ - 1],
                                   [w.ic[dp] EXCEPT !.nlink = @ - 1])
                      ELSE w, LAMBDA x :
         AndThen(iput(x, dp), LAMBDA y :
         AndThen(iupdate([y EXCEPT !.ic[ip].nlink = @ - 1],
                         [y.ic[ip] EXCEPT !.nlink = @ - 1]), LAMBDA z :
         AndThen(iput(z, ip), LAMBDA q :
             Ret(end_op_usize(q, checked), TRUE, "", 0))))))))))))))

\* create(path, typ, major, minor); ip = 0 in ret for Err
create(s, path, typ, major, minor, checked) ==
    AndThen(namex(s, path, TRUE, NoName), LAMBDA np :
    IF np.ret.ip = 0 THEN Ret(end_op_usize(np, checked), FALSE, "InvalidArg", 0)
    ELSE Bind(np.ret.ip, LAMBDA dp :
         Bind(np.ret.name, LAMBDA name :
         AndThen(ilock(np, dp), LAMBDA d :
         AndThen(dir_lookup_with_name(d, dp, name), LAMBDA lk :
         IF lk.ret.ip # 0
         THEN AndThen(iput(lk, dp), LAMBDA u :
              AndThen(ilock(u, lk.ret.ip), LAMBDA i :
                  IF typ = "File" /\ i.ic[lk.ret.ip].typ = "File"
                  THEN Ret(i, TRUE, "", lk.ret.ip)
                  ELSE Ret(i, FALSE, "IsDir", 0)))
         ELSE AndThen(ialloc(lk, typ, major, minor), LAMBDA a :
              Bind(a.ret, LAMBDA ip :
              AndThen(ilock(a, ip), LAMBDA i :
              AndThen(iupdate(i, i.ic[ip]), LAMBDA v :
              AndThen(IF typ # "Dir" THEN Ret(v, TRUE, "", ip)
                      ELSE AndThen(iupdate([v EXCEPT !.ic[dp].nlink = @ + 1],
                                           [v.ic[dp] EXCEPT !.nlink = @ + 1]), LAMBDA n :
                           AndThen(dir_link(n, ip, DotName, ip), LAMBDA l1 :
                           IF ~l1.ret.ok THEN Halt(l1, "create: failed to create dots")
                           ELSE AndThen(dir_link(l1, ip, DotDotName, dp), LAMBDA l2 :
                                IF ~l2.ret.ok THEN Halt(l2, "create: failed to create dots")
                                ELSE l2))), LAMBDA w :
              AndThen(dir_link(w, dp, name, ip), LAMBDA l :
                  IF ~l.ret.ok THEN Halt(l, "create: failed to dir_link")
                  ELSE Ret(l, TRUE, "", ip))))))))))))

\* mkdir(path) and mknod(path, major, minor)
mkdir(s, path, checked) ==
    AndThen(create(sys_begin_op(s), path, "Dir", 0, 0, checked), LAMBDA c :
        Ret(end_op_usize(c, checked), c.ret.ok, c.ret.err, 0))
mknod(s, path, major, minor, checked) ==
    AndThen(create(sys_begin_op(s), path, "Dev", major, minor, checked), LAMBDA c :
        Ret(end_op_usize(c, checked), c.ret.ok, c.ret.err, 0))

\* chdir(path); change_cwd puts the old directory and keeps the new one
chdir(s, path, checked) ==
    AndThen(namex(sys_begin_op(s), path, FALSE, NoName), LAMBDA np :
    IF np.ret.ip = 0 THEN Ret(end_op_usize(np, checked), FALSE, "NoEnt", 0)
    ELSE AndThen(ilock(np, np.ret.ip), LAMBDA i :
         IF i.ic[np.ret.ip].typ # "Dir"
         THEN Ret(end_op_usize(i, checked), FALSE, "NotDir", 0)
         ELSE AndThen(iput(i, i.cwd), LAMBDA u :
                  Ret(end_op_usize([u EXCEPT !.cwd = np.ret.ip], checked), TRUE, "", 0))))

\* link(new, old)
link(s, new, old, checked) ==
    AndThen(namex(sys_begin_op(s), old, FALSE, NoName), LAMBDA o :
    IF o.ret.ip = 0 THEN Ret(end_op_usize(o, checked), FALSE, "NoEnt", 0)
    ELSE Bind(o.ret.ip, LAMBDA ip :
         AndThen(ilock(o, ip), LAMBDA i :
         IF i.ic[ip].typ = "Dir" THEN Ret(end_op_usize(i, checked), FALSE, "IsDir", 0)
         ELSE AndThen(iupdate([i EXCEPT !.ic[ip].nlink = @ + 1],
                              [i.ic[ip] EXCEPT !.nlink = @ + 1]), LAMBDA u :
              AndThen(namex(u, new, TRUE, NoName), LAMBDA np :
              AndThen(IF np.ret.ip = 0 THEN Ret(np, FALSE, "InvalidArg", 0)
                      ELSE AndThen(ilock(np, np.ret.ip), LAMBDA d :
                           AndThen(dir_link(d, np.ret.ip, np.ret.name, ip), LAMBDA l :
                           AndThen(iput(l, np.ret.ip), LAMBDA p :
                               IF l.ret.ok THEN Ret(p, TRUE, "", 0)
                               ELSE Ret(p, FALSE, "InvalidArg", 0)))), LAMBDA res :
              IF res.ret.ok
              THEN AndThen(iput(res, ip), LAMBDA p :
                       Ret(end_op_usize(p, checked), TRUE, "", 0))
              ELSE AndThen(ilock(res, ip), LAMBDA w :
                   AndThen(iupdate([w EXCEPT !.ic[ip].nlink = @ - 1],
                                   [w.ic[ip] EXCEPT !.nlink = @ - 1]), LAMBDA x :
                   AndThen(iput(x, ip), LAMBDA y :
                       Ret(end_op_usize(y, checked), FALSE, res.ret.err, 0))))))))))

O_RDONLY == 0
O_WRONLY == 1
O_RDWR == 2
O_CREATE == 512
HasBits(mode, bits) == (mode \div bits) % 2 = 1

\* open(path, mode) with a free slot in the file table ft and a free
\* descriptor in ofile; ret has the new ft and ofile as well
open(s, path, mode, ft, ofile, checked) ==
    AndThen(IF HasBits(mode, O_CREATE)
            THEN AndThen(create(sys_begin_op(s), path, "File", 0, 0, checked), LAMBDA c :
                     IF c.ret.ok THEN c
                     ELSE Ret(end_op_usize(c, checked), FALSE, c.ret.err, 0))
            ELSE AndThen(namex(sys_begin_op(s), path, FALSE, NoName), LAMBDA n :
                     IF n.ret.ip # 0 THEN Ret(n, TRUE, "", n.ret.ip)
                     ELSE Ret(end_op_usize(n, checked), FALSE, "NoEnt", 0)), LAMBDA r :
    IF ~r.ret.ok THEN [r EXCEPT !.ret = [ok |-> FALSE, err |-> r.ret.err, ip |-> 0,
                                         ft |-> ft, ofile |-> ofile]]
    ELSE Bind(r.ret.ip, LAMBDA ip :
         AndThen(ilock(r, ip), LAMBDA i :
         IF i.ic[ip].typ = "Dir" /\ mode # O_RDONLY
         THEN AndThen(iput(i, ip), LAMBDA u :
                  [end_op_usize(u, checked) EXCEPT
                      !.ret = [ok |-> FALSE, err |-> "IsDir", ip |-> 0,
                               ft |-> ft, ofile |-> ofile]])
         ELSE Bind(alloc_as_inode(ft), LAMBDA a :
              Bind(fd_alloc(ofile, a.index), LAMBDA d :
                  [end_op_usize(i, checked) EXCEPT
                      !.ret = [ok |-> TRUE, err |-> "", ip |-> ip,
                               ft |-> a.ft, ofile |-> d.ofile]])))))

MaxSysCalls == 2
\* "/d", "/f", "/x" (no such entry), "/n" (a new name), "/" and "/x/y"
\* (no parent directory), and "g" (relative to the current directory)
PathD == <<47, 100>>
PathF == <<47, 102>>
PathX == <<47, 120>>
PathN == <<47, 110>>
PathRoot == <<47>>
PathXY == <<47, 120, 47, 121>>
PathG == <<103>>

\* The state after a system call: s the machine state, f the record of the
\* call, t the file table and descriptors
SysApply(s, f, t) ==
    /\ cache' = s.cache
    /\ disk' = s.disk
    /\ log' = s.log
    /\ panicked' = s.panic
    /\ fs' = [f EXCEPT !.icache = s.ic, !.icn = s.icn, !.cwd = s.cwd, !.nops = @ + 1,
                       !.call.n0 = log.outstanding, !.call.seen1 = s.ev]
    /\ files' = t
    /\ UNCHANGED <<calls, wlog, rw, once, pipe, bcLock, logLock, pc, held, cstep, kpc, incs,
                   txnW, pre, phase, crashPhase, runs, snap, mountDisk, handles>>

SysIdle ==
    /\ Running /\ pc[1] = "idle" /\ bcLock = 0 /\ logLock = 0
    /\ log.outstanding = 0 /\ fs.nops < MaxSysCalls

\* What the inodes and directories read as before and after a call: the
\* in-use entries of the root directory and of "d", and the link counts
SysView(s) ==
    Bind(AndThen(iget([s EXCEPT !.panic = ""], ROOT_INUM), LAMBDA g :
         AndThen(ilock(g, ROOT_INUM), LAMBDA r :
         AndThen(iget(r, 2), LAMBDA h : ilock(h, 2)))), LAMBDA v :
        [root |-> dir_ents(v, ROOT_INUM), d |-> dir_ents(v, 2),
         typ |-> v.ic[2].typ,
         nlink |-> [i \in {ROOT_INUM, 2} |-> v.ic[i].nlink]])

SysUnlink(path) ==
    /\ SysIdle
    /\ \E checked \in BOOLEAN :
       \E s \in {unlink(S0, path, checked)} :
           SysApply(s, [fs EXCEPT
                  !.call = [NoCall EXCEPT !.op = "unlink", !.arg = path, !.ret = s.ret,
                                          !.bits0 = SysView(S0), !.bits1 = SysView(s)]],
              files)

SysMkdir(path) ==
    /\ SysIdle
    /\ \E checked \in BOOLEAN :
       \E s \in {mkdir(S0, path, checked)} :
           SysApply(s, [fs EXCEPT
                  !.call = [NoCall EXCEPT !.op = "mkdir", !.arg = path, !.ret = s.ret]],
              files)

SysMknod(path) ==
    /\ SysIdle
    /\ \E checked \in BOOLEAN :
       \E s \in {mknod(S0, path, 1, 2, checked)} :
           SysApply(s, [fs EXCEPT
                  !.call = [NoCall EXCEPT !.op = "mknod", !.arg = path, !.ret = s.ret]],
              files)

SysChdir(path) ==
    /\ SysIdle
    /\ \E checked \in BOOLEAN :
       \E s \in {chdir(S0, path, checked)} :
           SysApply(s, [fs EXCEPT
                  !.call = [NoCall EXCEPT !.op = "chdir", !.arg = path, !.ret = s.ret]],
              files)

SysLink(new, old) ==
    /\ SysIdle
    /\ \E checked \in BOOLEAN :
       \E s \in {link(S0, new, old, checked)} :
           SysApply(s, [fs EXCEPT
                  !.call = [NoCall EXCEPT !.op = "link", !.arg = <<new, old>>,
                                          !.ret = s.ret]],
              files)

SysOpen(path, mode) ==
    /\ SysIdle
    /\ find_empty_entry(files.ft) # -1 /\ \E fd \in DOMAIN files.ofile : files.ofile[fd] = -1
    /\ \E checked \in BOOLEAN :
       \E s \in {open(S0, path, mode, files.ft, files.ofile, checked)} :
           SysApply(s, [fs EXCEPT
                  !.call = [NoCall EXCEPT !.op = "open", !.arg = <<path, mode>>,
                                          !.ret = s.ret]],
              IF s.panic = "" THEN [files EXCEPT !.ft = s.ret.ft, !.ofile = s.ret.ofile]
              ELSE files)

NextSys ==
    \/ LogInit
    \/ RecoverInstall
    \/ RecoverClear
    \/ MountDone
    \/ \E path \in {PathD, PathF, PathX, PathRoot, PathG} : SysUnlink(path)
    \/ \E path \in {PathD, PathN, PathRoot, PathXY} : SysMkdir(path)
    \/ \E path \in {PathF, PathN, PathXY} : SysMknod(path)
    \/ \E path \in {PathD, PathF, PathX} : SysChdir(path)
    \/ \E a \in {<<PathN, PathF>>, <<PathN, PathD>>, <<PathN, PathX>>, <<PathRoot, PathF>>,
                  <<PathF, PathF>>, <<PathXY, PathF>>} : SysLink(a[1], a[2])
    \/ \E a \in {<<PathF, O_RDONLY>>, <<PathF, O_WRONLY>>, <<PathD, O_RDWR>>,
                  <<PathD, O_RDONLY>>, <<PathX, O_RDONLY>>, <<PathXY, O_CREATE + O_RDWR>>,
                  <<PathF, O_CREATE + O_RDWR>>, <<PathN, O_CREATE + O_WRONLY>>} :
           SysOpen(a[1], a[2])

SpecSys == InitSys /\ [][NextSys]_vars

---------------------------------------------------------------------------
(* Admission against the size of the log: every admitted operation logs    *)
(* blocks of its own range of MAX_OP_BLOCKS blocks, so none logs more than *)
(* MAX_OP_BLOCKS distinct blocks.  The operations are numbered in the      *)
(* order of their begin_op; call path 1 stands for whichever of them makes *)
(* the next log_write (the BUF_CACHE lock, held from bread to brelse,      *)
(* lets one of them at a time get there).  An operation logs its blocks in *)
(* runs of FillBurst before another one takes over.                        *)

FillBurst == 5
OpBlocks(k) ==
    {SB.inode_start + k * MAX_OP_BLOCKS + j : j \in 0..(MAX_OP_BLOCKS - 1)} \cap BlockNos
OpLogged(k) == {log.lh.block[i] : i \in 0..(log.lh.n - 1)} \cap OpBlocks(k)
\* The operation that is in the middle of a run, -1 when none is
OpInRun ==
    IF log.lh.n = 0 THEN -1
    ELSE LET k == CHOOSE k \in 0..(LOG_SIZE \div MAX_OP_BLOCKS) :
                      log.lh.block[log.lh.n - 1] \in OpBlocks(k)
         IN  IF Cardinality(OpLogged(k)) % FillBurst = 0 \/ OpBlocks(k) \subseteq OpLogged(k)
             THEN -1 ELSE k

\* bread of the next block of its range by operation k
OpBread(k) ==
    /\ k < log.outstanding /\ OpInRun \in {-1, k}
    /\ OpBlocks(k) \ OpLogged(k) # {}
    /\ Bread(1, Min(OpBlocks(k) \ OpLogged(k)))

NextBig ==
    \/ LogInit
    \/ RecoverInstall
    \/ RecoverClear
    \/ MountDone
    \/ pc[1] = "idle" /\ Admit
    \/ \E k \in 0..(LOG_SIZE \div MAX_OP_BLOCKS - 1) : OpBread(k)
    \/ Modify(1, 1)
    \/ LogWrite(1)
    \/ Brelse(1)

SpecBig == InitLog /\ [][NextBig]_vars

---------------------------------------------------------------------------
(***************************************************************************)
(* The inode layer run by two call paths.  BUF_CACHE and INODE_CACHE are   *)
(* spin locks: a step that takes one is enabled when it is free, and a     *)
(* call path that has taken one and needs the other stays where it is      *)
(* while the other is held.  A call that takes one lock only is one step.  *)
(***************************************************************************)
MaxIcOps == 6       \* inode-layer calls started in one behaviour
IcInums == {3, 4}

\* The state after a step of call path p: s the machine state, w where p is
\* now, b and i the holders of BUF_CACHE and INODE_CACHE, n the calls
\* started by the step
IcApply(s, p, w, b, i, n) ==
    /\ cache' = s.cache
    /\ disk' = s.disk
    /\ log' = s.log
    /\ panicked' = s.panic
    /\ fs' = [fs EXCEPT !.icache = s.ic, !.icn = s.icn, !.nops = @ + n]
    /\ pc' = [pc EXCEPT ![p] = w]
    /\ bcLock' = b
    /\ calls' = [calls EXCEPT !.icLock = i,
                               !.call[p] = IF w = "idle" THEN "none" ELSE w,
                               !.arg[p] = IF w = "idle" THEN 0 ELSE s.ret]
    /\ UNCHANGED <<wlog, rw, once, files, pipe, logLock, held, cstep, kpc, incs, txnW, pre, phase,
                   crashPhase, runs, snap, mountDisk, handles>>

IcIdle(p) ==
    /\ Running /\ pc[p] = "idle" /\ logLock = 0 /\ log.outstanding >= 1
    /\ fs.nops < MaxIcOps

\* ialloc up to `return iget(dev, inum)`: the BUF_CACHE guard of the
\* iteration is alive until the function has returned
IcIallocScan(p, typ) ==
    /\ IcIdle(p) /\ bcLock = 0
    /\ \E s \in {ialloc_scan(S0, typ, 0, 0)} :
           IcApply(s, p, "ialloc_iget", p, calls.icLock, 1)

\* iget(dev, inum) in ialloc: inode_cache().lock() is taken when free; the
\* function returns and both guards are dropped
IcIallocIget(p) ==
    /\ Running /\ pc[p] = "ialloc_iget" /\ bcLock = p
    /\ calls.icLock = 0
    /\ \E s \in {iget(S0, calls.arg[p])} :
           IcApply(s, p, "idle", 0, 0, 0)

\* iget(dev, inum)
IcIget(p, inum) ==
    /\ IcIdle(p) /\ calls.icLock = 0
    /\ \E s \in {iget(S0, inum)} :
           IcApply(s, p, "idle", bcLock, 0, 1)

\* ilock(&ip) on a handle
IcIlock(p, inum) ==
    /\ IcIdle(p) /\ bcLock = 0 /\ fs.icache[inum].some
    /\ \E s \in {ilock(S0, inum)} :
           IcApply(s, p, "idle", 0, calls.icLock, 1)

\* inode.nlink -= 1; iupdate(&inode) on a locked inode
IcIupdate(p, inum) ==
    /\ IcIdle(p) /\ bcLock = 0 /\ fs.icache[inum].valid /\ fs.icache[inum].nlink > 0
    /\ \E s \in {iupdate([S0 EXCEPT !.ic[inum].nlink = @ - 1],
                         [fs.icache[inum] EXCEPT !.nlink = @ - 1])} :
           IcApply(s, p, "idle", 0, calls.icLock, 1)

\* iput(ip) up to itrunc: `if inode.valid && inode.nlink == 0` and, when it
\* holds, inode_cache().lock()
IcIput(p, inum) ==
    /\ IcIdle(p) /\ fs.icache[inum].some
    /\ IF fs.icache[inum].valid /\ fs.icache[inum].nlink = 0
       THEN /\ calls.icLock = 0
            /\ IcApply([S0 EXCEPT !.ret = inum], p, "iput_itrunc", bcLock, p, 1)
       ELSE IcApply(S0, p, "idle", bcLock, calls.icLock, 1)

\* The first buf_cache() of itrunc, or of iupdate for a file without
\* blocks, taken when free; then the rest of iput
IcIputItrunc(p) ==
    /\ Running /\ pc[p] = "iput_itrunc" /\ calls.icLock = p /\ logLock = 0
    /\ bcLock = 0
    /\ \E s \in {iput(S0, calls.arg[p])} :
           IcApply(s, p, "idle", 0, 0, 0)

\* end_op by a call path that holds no lock; no call path is at a lock
IcEndOp(p) ==
    /\ Running /\ logLock = 0 /\ bcLock = 0 /\ log.outstanding >= 1
    /\ \A q \in Procs : pc[q] = "idle"
    /\ \E s \in {end_op(S0)} :
           IcApply(s, p, "idle", 0, calls.icLock, 0)

NextIc ==
    \/ LogInit
    \/ RecoverInstall
    \/ RecoverClear
    \/ MountDone
    \/ Admit
    \/ \E p \in Procs : IcEndOp(p)
    \/ \E p \in Procs : \E typ \in {"File", "Dir"} : IcIallocScan(p, typ)
    \/ \E p \in Procs : IcIallocIget(p)
    \/ \E p \in Procs : \E inum \in IcInums : IcIget(p, inum)
    \/ \E p \in Procs : \E inum \in IcInums : IcIlock(p, inum)
    \/ \E p \in Procs : \E inum \in IcInums : IcIupdate(p, inum)
    \/ \E p \in Procs : \E inum \in IcInums : IcIput(p, inum)
    \/ \E p \in Procs : IcIputItrunc(p)

SpecIc == InitFs /\ [][NextIc]_vars

---------------------------------------------------------------------------
(***************************************************************************)
(* System calls of two call paths at the level of the LOG and BUF_CACHE    *)
(* locks.  A "write" call is begin_op, then any number of bread, change,   *)
(* log_write, brelse (writei keeps the BUF_CACHE guard across log_write),  *)
(* then end_op.  A "mkdir" call is sysfile::mkdir on a path whose parent   *)
(* directory is missing: begin_op, the reads of nameiparent, end_op in     *)
(* create, end_op in mkdir.  outstanding is a usize; no step is taken from *)
(* a state in which it has wrapped.                                        *)
(***************************************************************************)
MaxCyCalls == 3     \* system calls begun in one behaviour

CyRunning == Running /\ log.outstanding >= 0

\* begin_op, the pass that admits, of system call c
CyBegin(p, c) ==
    /\ CyRunning /\ pc[p] = "idle" /\ calls.call[p] = "none" /\ logLock = 0
    /\ calls.n < MaxCyCalls
    /\ log' = begin_op(log)
    /\ log'.outstanding > log.outstanding
    /\ calls' = [calls EXCEPT !.call[p] = c, !.n = @ + 1]
    /\ UNCHANGED <<wlog, rw, once, files, pipe, disk, cache, bcLock, logLock, pc, held, cstep,
                   kpc, panicked, incs, txnW, pre, phase, crashPhase, runs, snap, mountDisk,
                   handles, fs>>

\* writei's bread of a block; the reads of nameiparent
CyBread(p, b) ==
    /\ CyRunning /\ calls.call[p] \in {"write", "mkdir"}
    /\ Bread(p, b)

\* writei changes the buffer
CyModify(p, v) ==
    /\ CyRunning /\ calls.call[p] = "write"
    /\ Modify(p, v)

\* writei: log::log_write(&mut bp), the BUF_CACHE guard alive
CyLogWrite(p) ==
    /\ CyRunning /\ calls.call[p] = "write"
    /\ LogWrite(p)

\* bcache.release(bp) and the guard dropped
CyBrelse(p) ==
    /\ CyRunning /\ calls.call[p] \in {"write", "mkdir"}
    /\ Brelse(p)

\* end_op up to the call of commit: `log.outstanding -= 1` halts the kernel
\* at 0 in a build with overflow checks and wraps in one without.  The
\* end_op of a write and the second end_op of the mkdir end the call.
CyEndOp(p, checked) ==
    /\ CyRunning /\ pc[p] = "idle" /\ logLock = 0
    /\ calls.call[p] \in {"write", "mkdir", "mkdir_end"}
    /\ IF log.outstanding = 0
       THEN /\ log' = IF checked THEN log ELSE [log EXCEPT !.outstanding = -1]
            /\ panicked' = IF checked THEN "attempt to subtract with overflow" ELSE panicked
            /\ UNCHANGED <<pc, logLock, cstep>>
       ELSE /\ log' = [log EXCEPT !.outstanding = @ - 1]
            /\ panicked' = panicked
            /\ IF log'.outstanding = 0 /\ log.lh.n > 0
               THEN /\ pc' = [pc EXCEPT ![p] = "commit"]
                    /\ logLock' = p
                    /\ cstep' = <<"write_log", 0>>
               ELSE UNCHANGED <<pc, logLock, cstep>>
    /\ calls' = [calls EXCEPT !.call[p] = IF @ = "mkdir" THEN "mkdir_end" ELSE "none"]
    /\ UNCHANGED <<wlog, rw, once, files, pipe, disk, cache, bcLock, held, kpc, incs, txnW, pre,
                   phase, crashPhase, runs, snap, mountDisk, handles, fs>>

\* A step of commit under the LOG lock
CyCommit(p) ==
    /\ CyRunning
    /\ \/ WriteLogPass(p)
       \/ WriteHeadCommit(p)
       \/ InstallPass(p)
       \/ WriteHeadErase(p)

NextCycle ==
    \/ LogInit
    \/ RecoverInstall
    \/ RecoverClear
    \/ MountDone
    \/ \E p \in Procs : \E c \in {"write", "mkdir"} : CyBegin(p, c)
    \/ \E p \in Procs : \E b \in HomeBlocks : CyBread(p, b)
    \/ \E p \in Procs : \E v \in Vals : CyModify(p, v)
    \/ \E p \in Procs : CyLogWrite(p)
    \/ \E p \in Procs : CyBrelse(p)
    \/ \E p \in Procs : \E checked \in BOOLEAN : CyEndOp(p, checked)
    \/ \E p \in Procs : CyCommit(p)

SpecCycle == InitLog /\ [][NextCycle]_vars

---------------------------------------------------------------------------
(* Properties.                                                             *)

\* C1: after a crash that follows the commit point (the first write_head of
\* commit has reached the disk) and the recovery of the next mount, every
\* home block the transaction logged holds the contents last passed to
\* log_write for it.
C1_CommittedSurvivesCrash ==
    (kpc = "done" /\ crashPhase = "after" /\ panicked = "") =>
        \A b \in HomeBlocks : txnW[b].has => disk[b] = txnW[b].data

\* C2: before the commit point no home block is written on disk, and after a
\* crash that precedes the commit point, recovery included, every home block
\* holds its contents from before the transaction.
C2_NoHomeWriteBeforeCommit ==
    /\ (kpc = "run" /\ phase = "open") => Home(disk) = pre
    /\ crashPhase = "before" => Home(disk) = pre

C2_CrashedBeforeCommit ==
    /\ kpc = "done" /\ crashPhase = "before" /\ panicked = ""
    /\ \E b \in HomeBlocks : txnW[b].has /\ txnW[b].data # pre[b]
    /\ LogHeader(disk[SB.log_start]).n = 0

\* C3: a second run of recover_from_log leaves the disk and the in-memory
\* header as the first run left them, and a run against a persisted header
\* whose count is zero changes no block outside the log.
C3_RecoverIdempotent ==
    /\ (kpc = "done" /\ runs = 2) => (disk = snap.disk /\ log.lh = snap.lh)
    /\ (kpc = "done" /\ LogHeader(mountDisk[SB.log_start]).n = 0) =>
           \A b \in BlockNos \ LogRegion : disk[b] = mountDisk[b]

C3_RecoveredTwice ==
    /\ kpc = "done" /\ runs = 2 /\ panicked = ""
    /\ LogHeader(mountDisk[SB.log_start]).n > 0
    /\ mountDisk[SB.log_start + 1] # mountDisk[LogHeader(mountDisk[SB.log_start]).block[0]]

\* C4: outstanding is incremented only from a state where
\* lh.n + (outstanding + 1) * MAX_OP_BLOCKS <= LOG_SIZE, so that right after
\* the increment lh.n + outstanding * MAX_OP_BLOCKS <= LOG_SIZE.
C4_AdmissionReserves ==
    [][log'.outstanding > log.outstanding =>
          /\ log.lh.n + (log.outstanding + 1) * MAX_OP_BLOCKS <= LOG_SIZE
          /\ log'.lh.n + log'.outstanding * MAX_OP_BLOCKS <= LOG_SIZE]_vars

C4_AdmittedToTheLimit ==
    /\ \E p \in Procs : incs[p] >= 1
    /\ log.lh.n > 0
    /\ log.lh.n + (log.outstanding + 1) * MAX_OP_BLOCKS > LOG_SIZE
    /\ log.lh.n + log.outstanding * MAX_OP_BLOCKS <= LOG_SIZE

\* C5: a call of begin_op increments outstanding exactly once: at no time
\* has one call incremented it more than once.
C5_OneIncrementPerCall ==
    \A p \in Procs : incs[p] <= 1

\* C6: at most one cache entry has a given (dev, blockno), and a get for a
\* key that is resident increments that entry's refcnt and returns a handler
\* to it, claiming no other slot.
C6_UniqueKeys ==
    \A i, j \in Slots :
        (cache[i].some /\ cache[j].some /\ cache[i].dev = cache[j].dev
            /\ cache[i].blockno = cache[j].blockno) => i = j

C6_GetResident ==
    Len(handles') > Len(handles) =>
        LET h == handles'[Len(handles')]
            m == Matches(cache, h.dev, h.blockno)
        IN  m # {} => /\ h.slot \in m
                      /\ cache' = [cache EXCEPT ![h.slot].refcnt = @ + 1]

C6_OneEntryPerKey == []C6_UniqueKeys /\ [][C6_GetResident]_vars

C6_GotResidentKey ==
    \E a, b \in 1..Len(handles) :
        /\ a < b
        /\ handles[a].dev = handles[b].dev /\ handles[a].blockno = handles[b].blockno
        /\ cache[handles[b].slot].some /\ cache[handles[b].slot].refcnt = 2
        /\ \E i \in Slots : i < handles[b].slot /\ ~cache[i].some

\* C7: from log_write(b) until commit copies b to the log, the buffer of b
\* is resident with the contents passed to log_write, also when no handler
\* to it is held.
C7_DirtyStaysResident ==
    (Running /\ cstep[1] = "none") =>
        \A b \in HomeBlocks :
            (txnW[b].has /\ \A p \in Procs : held[p] # b) =>
                \E i \in Slots : /\ cache[i].some
                                 /\ cache[i].dev = ROOT_DEV /\ cache[i].blockno = b
                                 /\ HasFlag(cache[i].flags, BUF_FLAGS_DIRTY)
                                 /\ cache[i].data = txnW[b].data

\* C8: once a transaction that linked "a" to inode 2 in the root and wrote
\* MaxWrite (600) bytes to inode 2 has committed (end_op returned), and a
\* crash and the recovery have followed, resolving "/a" returns inode 2 with
\* size 600 and exactly the bytes written.
C8_Target == [ip |-> 2, size |-> MaxWrite, bytes |-> Src(MaxWrite)]
C8_CommittedWritesSurviveCrash ==
    (/\ fs.res.done
     /\ fs.res.name = NameBuf(<<97>>)
     /\ LogicalResolve(fs.atCrash, NameBuf(<<97>>)) = C8_Target
     /\ fs.res.want = C8_Target)
    => fs.res.got = C8_Target

\* C9: a writei with n > 0, off <= size and off + n > size leaves the inode
\* with size off + n, and once its transaction has committed an inode loaded
\* from disk by ilock has the size the committed writei calls gave it.
C9_SizeSetByWritei ==
    (fs.lastW.done /\ fs.lastW.n > 0 /\ fs.lastW.off <= fs.lastW.before
        /\ fs.lastW.off + fs.lastW.n > fs.lastW.before)
    => fs.lastW.after = fs.lastW.off + fs.lastW.n
C9_SizeReloaded ==
    \A i \in Inums :
        (/\ fs.icache[i].some /\ fs.icache[i].valid
         /\ fs.ideal.p[i] = fs.ideal.d[i]
         /\ fs.ideal.d[i].size > Logical0[i].size)
        => fs.icache[i].size = fs.ideal.d[i].size
C9_WriteiGrowsSizeDurably == C9_SizeSetByWritei /\ C9_SizeReloaded

\* C10: a dir_link that succeeds in a directory with a slot whose inum is 0
\* (an entry was deleted) writes at the offset of the first such slot and
\* leaves the size unchanged; the size changes only when no slot has inum 0,
\* and then by exactly one DirEnt.
C10_LinkReusesFreedSlot ==
    fs.link.done =>
        /\ fs.link.free # {} =>
              /\ fs.link.off = Min(fs.link.free) * DIRENT_SIZE
              /\ fs.link.after = fs.link.before
        /\ fs.link.after # fs.link.before =>
              /\ fs.link.free = {}
              /\ fs.link.after = fs.link.before + DIRENT_SIZE

\* C11: when the header persisted in the first log block has count k > 0 and
\* block list b0..b(k-1), one run of recover_from_log leaves log data block i
\* in home block bi for every i < k and a header with count 0 on disk, and
\* the header it worked from has the block list of the persisted header.
C11_RecoverReplaysPersisted ==
    (runs = 1 /\ kpc = "done" /\ panicked = "") =>
        /\ \A i \in 0..(LogHeader(mountDisk[SB.log_start]).n - 1) :
              /\ disk[LogHeader(mountDisk[SB.log_start]).block[i]]
                     = mountDisk[SB.log_start + 1 + i]
              /\ snap.lh.block[i] = LogHeader(mountDisk[SB.log_start]).block[i]
        /\ LogHeader(disk[SB.log_start]).n = 0

\* C12: a balloc that returns gives a block whose bitmap bit was 0 and that
\* none of the balloc calls made just before it (no bfree in between)
\* returned.
C12_BallocHandsOutFreeBlock ==
    (fs.call.op = "balloc" /\ panicked = "") =>
        /\ fs.call.ret \notin fs.call.bits0
        /\ fs.call.ret \notin fs.call.prev

\* C13: the block balloc returned, read through the buffer cache (get and
\* read), is all zero bytes, whatever it held on disk before.
C13_BallocBlockReadsZero ==
    (fs.call.op = "balloc" /\ panicked = "") => Bytes(fs.call.data) = Bytes0

\* C14: an iput that changes the inode or takes its cache entry away drops
\* the last handle of an inode with nlink 0; while the call path holds
\* another handle to the inode, iput leaves the cache entry as it was.
C14_IputFreesOnLastRefOnly ==
    (fs.call.op = "iput" /\ panicked = "") =>
        /\ fs.call.refs >= 2 => fs.call.ino1 = fs.call.ino0
        /\ fs.call.ino1 # fs.call.ino0 => (fs.call.refs = 1 /\ fs.call.ino0.nlink = 0)

\* C18: bfree of a block whose bitmap bit is set returns with exactly that
\* bit cleared in the bitmap (as the next get and read return it) and every
\* other bit as before; bfree of a block whose bit is clear halts with
\* "bfree: freeing free block", the bitmap and lh.n as before.
C18_BfreeClearsExactlyOneBit ==
    fs.call.op = "bfree" =>
        /\ fs.call.arg \in fs.call.bits0 =>
              /\ panicked = ""
              /\ fs.call.bits1 = fs.call.bits0 \ {fs.call.arg}
        /\ fs.call.arg \notin fs.call.bits0 =>
              /\ panicked = "bfree: freeing free block"
              /\ fs.call.bits1 = fs.call.bits0
              /\ log.lh.n = fs.call.n0

\* C19: no cache entry is left with valid = true and type Empty; an ilock
\* on an unloaded entry copies typ, major, minor, nlink, size and addrs from
\* the dinode on disk and sets valid, and halts with "ilock: no type"
\* exactly when that type is Empty; an ilock on a loaded entry changes
\* nothing.
C19_LoadedInodeHasType ==
    /\ panicked = "" =>
           \A i \in Inums : (fs.icache[i].some /\ fs.icache[i].valid)
                                => fs.icache[i].typ # "Empty"
    /\ fs.call.op = "ilock" =>
           /\ fs.call.ino0.valid => (fs.call.ino1 = fs.call.ino0 /\ panicked = "")
           /\ ~fs.call.ino0.valid =>
                 /\ fs.call.ino1 =
                        [fs.call.ino0 EXCEPT
                            !.typ = fs.call.din.typ, !.major = fs.call.din.major,
                            !.minor = fs.call.din.minor, !.nlink = fs.call.din.nlink,
                            !.size = fs.call.din.size, !.addrs = fs.call.din.addrs,
                            !.valid = TRUE]
                 /\ (panicked = "ilock: no type") <=> (fs.call.din.typ = "Empty")
C19_LoadedFromDisk ==
    /\ fs.call.op = "ilock" /\ panicked = ""
    /\ ~fs.call.ino0.valid /\ fs.call.ino1.valid /\ fs.call.ino1.typ = "File"

\* C20: iget of a key in the cache returns the entry as it is; iget of a key
\* not in the cache creates an unloaded entry; it halts with "iget: no inodes"
\* exactly when the key is not in the cache and the cache holds NINODE
\* entries.
C20_IgetHaltsOnlyWhenFull ==
    fs.call.op = "iget" =>
        /\ fs.call.ino0.some => (fs.call.ino1 = fs.call.ino0 /\ panicked = "")
        /\ (~fs.call.ino0.some /\ panicked = "")
               => fs.call.ino1 = Inode_empty(ROOT_DEV, fs.call.arg)
        /\ (panicked = "iget: no inodes")
               <=> (~fs.call.ino0.some /\ fs.call.n0 = NINODE)

\* C15: commit runs only while outstanding is 0; it is started exactly by
\* the end_op step that takes outstanding from 1 to 0 (with blocks logged);
\* and the header written at the commit point lists every block logged
\* since the last commit, whichever operation logged it.
C15_NoCommitWhileOpen == cstep[1] # "none" => log.outstanding = 0
C15_CommitByLastEndOp ==
    /\ (cstep[1] = "none" /\ cstep'[1] # "none")
           => (log.outstanding = 1 /\ log'.outstanding = 0)
    /\ (log.outstanding = 1 /\ log'.outstanding = 0 /\ log.lh.n > 0)
           => cstep' = <<"write_log", 0>>
C15_AllLoggedInHeader ==
    phase = "committed" =>
        \A b \in HomeBlocks :
            txnW[b].has =>
                \E i \in 0..(LogHeader(disk[SB.log_start]).n - 1) :
                    LogHeader(disk[SB.log_start]).block[i] = b
C16_CountWithinHeader == log.lh.n <= LOG_SIZE
C16_RefusedRecordsNothing ==
    (panicked = "" /\ panicked' = "too big a transaction") => log' = log
C16_HeaderNeverOverflows == []C16_CountWithinHeader /\ [][C16_RefusedRecordsNothing]_vars
C16_RefusedWhenFull ==
    panicked = "too big a transaction" /\ log.lh.n = LOG_SIZE - 1

\* C17: the first lh.n block numbers of the header are pairwise distinct; a
\* log_write of a block already recorded leaves the header unchanged, and a
\* log_write of a block not recorded puts it at index lh.n and adds one to
\* lh.n.
C17_Distinct ==
    \A i, j \in 0..(log.lh.n - 1) : log.lh.block[i] = log.lh.block[j] => i = j
C17_LogWriteStep ==
    (pc[1] = "modified" /\ pc'[1] = "logged" /\ panicked' = "") =>
        IF \E j \in 0..(log.lh.n - 1) : log.lh.block[j] = held[1]
        THEN log'.lh = log.lh
        ELSE log'.lh = [log.lh EXCEPT !.block[log.lh.n] = held[1], !.n = @ + 1]
C17_HeaderDeduplicated == []C17_Distinct /\ [][C17_LogWriteStep]_vars
C17_LoggedAgain ==
    /\ pc[1] = "logged" /\ panicked = ""
    /\ log.lh.n >= 2 /\ held[1] = log.lh.block[0]

\* C21: block_for(bn) that returns gives a block of the disk whose bitmap
\* bit is set; for bn < NDIRECT it is addrs[bn]; for NDIRECT <= bn <
\* NDIRECT + NINDIRECT it is entry bn - NDIRECT of the indirect block
\* addrs[NDIRECT], which is in place only then; a later call for the same bn
\* returns the same block; for bn >= NDIRECT + NINDIRECT the call halts.
C21_BlockForMapsLogicalBlock ==
    fs.call.op = "block_for" =>
        /\ fs.call.arg >= MAX_FILE <=> panicked = "addr_for: out of range"
        /\ panicked = "" =>
              /\ fs.call.ret \in BlockNos
              /\ fs.call.ret \in fs.call.bits1
              /\ fs.call.seen0 \subseteq {fs.call.ret}
              /\ fs.call.arg < NDIRECT =>
                    /\ fs.call.ino1.addrs[fs.call.arg] = fs.call.ret
                    /\ fs.call.ino1.addrs[NDIRECT] = fs.call.ino0.addrs[NDIRECT]
              /\ fs.call.arg >= NDIRECT =>
                    /\ fs.call.ino1.addrs[NDIRECT] # 0
                    /\ fs.call.seen1 = {fs.call.ret}

C23_DirLinkAddsOneEntryOrRefuses ==
    fs.call.op = "dir_link" =>
        /\ panicked = ""
        /\ (\E e \in fs.call.seen0 : strncmp(fs.call.arg.name, e[2].name, DIR_SIZ) = 0) =>
              /\ fs.call.ret = FALSE
              /\ fs.call.seen1 = fs.call.seen0
              /\ fs.call.ino1.size = fs.call.ino0.size
        /\ ~(\E e \in fs.call.seen0 : strncmp(fs.call.arg.name, e[2].name, DIR_SIZ) = 0) =>
              /\ fs.call.ret = TRUE
              /\ \E k \in 0..(DirSlots(fs.call.ino1.size) - 1) :
                     /\ \A e \in fs.call.seen0 : e[1] # k
                     /\ fs.call.seen1 = fs.call.seen0 \cup {<<k, fs.call.arg>>}

\* C24: in the inode-lock events of a namex call, in the order they happen,
\* every lock taken is dropped before the next one is taken: the call path
\* never holds two inode locks.
C24_NamexHoldsOneInodeLock ==
    fs.call.op = "namex" =>
        \A k \in 1..Len(fs.call.seen1) :
            Cardinality({j \in 1..k : fs.call.seen1[j][1] = "lock"})
                - Cardinality({j \in 1..k : fs.call.seen1[j][1] = "unlock"}) \in {0, 1}
C24_LockedTwoInodesInTurn ==
    /\ fs.call.op = "namex" /\ panicked = ""
    /\ \E j, k \in 1..Len(fs.call.seen1) :
           /\ j < k /\ fs.call.seen1[j][1] = "lock" /\ fs.call.seen1[k][1] = "lock"
           /\ fs.call.seen1[j][2] # fs.call.seen1[k][2]

\* The inode a walk from cur over elems has to end at (0: none), given what
\* the inodes are seen to be.
RECURSIVE C25_Walk(_, _, _, _)
C25_Walk(view, cur, elems, wp) ==
    IF elems = <<>> THEN cur
    ELSE IF view[cur].typ # "Dir" THEN 0
    ELSE IF wp /\ Len(elems) = 1 THEN cur
    ELSE LET hit == {e \in view[cur].ents : e[1] = NameBuf(elems[1])}
         IN  IF hit = {} THEN 0
             ELSE C25_Walk(view, (CHOOSE e \in hit : TRUE)[2], Tail(elems), wp)

\* C25: namex walks from the root directory (absolute path) or from the
\* caller's current directory over the elements of the path; it returns the
\* inode of the last element, or with want_parent the directory that is to
\* hold the last element and that element in name; it returns None when an
\* element is missing, when an inode to search is no directory, and when
\* want_parent is set and the path has no element.
C25_NamexResolves ==
    fs.call.op = "namex" =>
        /\ panicked = ""
        /\ fs.call.ret.ip =
               IF fs.call.arg.elems = <<>> /\ fs.call.arg.wp THEN 0
               ELSE C25_Walk(fs.call.seen0,
                             IF fs.call.arg.abs THEN ROOT_INUM ELSE fs.call.arg.cwd,
                             fs.call.arg.elems, fs.call.arg.wp)
        /\ (fs.call.arg.wp /\ fs.call.ret.ip # 0) =>
               fs.call.ret.name = NameBuf(fs.call.arg.elems[Len(fs.call.arg.elems)])
C25_ParentOfMissingName ==
    /\ fs.call.op = "namex" /\ panicked = ""
    /\ fs.call.arg.wp /\ ~fs.call.arg.abs /\ fs.call.ret.ip = 2
    /\ fs.call.ret.name = NameBuf(<<120>>)

\* C28: while the kernel runs, every resident entry has refcnt >= 1, equal to
\* the number of handlers for its key that get returned and release has not
\* taken back, and every such handler's key is resident; at most NBUF
\* entries are resident.  A release that takes the last handler of a key
\* leaves no entry for the key.  A get halts with "get: no buffers" exactly
\* when its key is not resident and no slot is empty; a release halts
\* exactly when its key is not resident.
C28_RefcntCountsHandlers ==
    panicked = "" =>
        /\ \A i \in Slots : cache[i].some =>
               /\ cache[i].refcnt >= 1
               /\ cache[i].refcnt =
                      Cardinality({k \in 1..Len(handles) :
                                      /\ handles[k].dev = cache[i].dev
                                      /\ handles[k].blockno = cache[i].blockno})
        /\ \A k \in 1..Len(handles) :
               Matches(cache, handles[k].dev, handles[k].blockno) # {}
        /\ Cardinality({i \in Slots : cache[i].some}) <= NBUF
C28_GetOrReleaseStep ==
    /\ Len(handles') > Len(handles) =>
           ((panicked' = "get: no buffers")
               <=> (/\ Empties(cache) = {}
                    /\ Matches(cache, handles'[Len(handles')].dev,
                                handles'[Len(handles')].blockno) = {}))
    /\ Len(handles') < Len(handles) =>
           /\ panicked' = ""
           /\ \A i \in Slots :
                  (cache[i].some /\ cache[i].refcnt = 1 /\ cache' # cache
                      /\ cache'[i] # cache[i]) => ~cache'[i].some
    /\ (Len(handles') = Len(handles) /\ panicked' # panicked) =>
           /\ panicked' = "release: illegal dev or blockno"
           /\ cache' = cache
C30_WritesInOrder ==
    panicked = "" =>
        LET k == IF cstep[1] = "erase" THEN (Len(wlog) - 1) \div 2 ELSE log.lh.n
            expected(i) ==
                IF i <= k THEN [b |-> log.start + i, n |-> -1]
                ELSE IF i = k + 1 THEN [b |-> log.start, n |-> k]
                ELSE [b |-> log.lh.block[i - k - 2], n |-> -1]
        IN  /\ Len(wlog) <= 2 * k + 1
            /\ \A i \in 1..Len(wlog) : wlog[i] = expected(i)
            /\ cstep[1] = "none" => wlog = NoWrites
            /\ cstep[1] = "write_log" => Len(wlog) = cstep[2] /\ cstep[2] < k
            /\ cstep[1] = "write_head" => Len(wlog) = k /\ k > 0
            /\ cstep[1] = "install_trans" =>
                   /\ Len(wlog) = k + 1 + cstep[2] /\ cstep[2] < k
                   /\ LogHeader(disk[log.start]).n = k
            /\ cstep[1] = "erase" =>
                   /\ Len(wlog) = 2 * k + 1 /\ k > 0
                   /\ LogHeader(disk[log.start]).n = k
C30_CommitStep ==
    (kpc = "run" /\ kpc' = "run" /\ panicked' = "") =>
        /\ (cstep[1] = "erase" /\ cstep'[1] = "none") =>
               /\ LogHeader(disk'[log.start]).n = 0
               /\ \A b \in BlockNos \ {log.start} : disk'[b] = disk[b]
        /\ disk' # disk =>
               /\ cstep[1] # "none"
               /\ \E b \in BlockNos :
                      /\ \A c \in BlockNos \ {b} : disk'[c] = disk[c]
                      /\ \/ cstep'[1] = "none" /\ b = log.start
                         \/ wlog' = Append(wlog, wlog'[Len(wlog')])
                            /\ wlog'[Len(wlog')].b = b
        /\ (log'.outstanding = log.outstanding - 1 /\ log.lh.n = 0) =>
               disk' = disk /\ cstep' = cstep /\ wlog' = NoWrites
C30_CommitWriteOrder == []C30_WritesInOrder /\ [][C30_CommitStep]_vars
C30_AllHomeBlocksInstalled ==
    /\ panicked = "" /\ cstep[1] = "erase"
    /\ Len(wlog) = 5
    /\ wlog[3].n = 2
    /\ wlog[4].b # wlog[5].b

\* C27: at any moment at most one call path holds the write guard of the
\* RwLock, and no call path holds a read guard while one holds the write
\* guard, whatever the interleaving of try_read, try_write (and so of read
\* and write) and of the drops of the guards.
C27_MutualExclusion ==
    /\ Cardinality({t \in Threads : rw.pc[t] = "w"}) <= 1
    /\ (\E t \in Threads : rw.pc[t] = "w") => (\A t \in Threads : rw.pc[t] # "r")
C27_ReaderRefusedByWriter ==
    \E t, u, v \in Threads :
        /\ rw.pc[t] = "w"
        /\ rw.pc[u] = "added" /\ rw.val[u] = WRITER
        /\ rw.pc[v] = "added" /\ rw.val[v] = WRITER + READER

\* C29: over all callers of call_once on one Once the builder runs at most
\* once, a caller returns only after that run has stored its value, and the
\* reference every caller returned leads to the value of that run.
C29_BuilderRunsOnce ==
    /\ once.built <= 1
    /\ \A t \in Threads :
           once.pc[t] = "done" => once.got[t] = 1 /\ once.cell.data = 1

\* C26: a call of open that finds every slot of the file table in use
\* returns Err(TooManyFiles), and one that finds a slot but every descriptor
\* of the process in use returns Err(TooManyFileDescriptors); when it has
\* returned, the file table is as it was before the call and outstanding has
\* the value it had before the call.
C26_ExhaustionIsReturned ==
    /\ (files.pc = "alloc" /\ ~alloc_as_inode(files.ft).some)
           ~> (/\ files.pc = "idle" /\ files.ret = "TooManyFiles"
               /\ files.ft = files.ft0 /\ log.outstanding = files.out0)
    /\ (files.pc = "alloc" /\ alloc_as_inode(files.ft).some
                           /\ ~fd_alloc(files.ofile, 0).ok)
           ~> (/\ files.pc = "idle" /\ files.ret = "TooManyFileDescriptors"
               /\ files.ft = files.ft0 /\ log.outstanding = files.out0)

\* C32: skip_elem returns null exactly for a path of '/' characters only
\* (the empty path included); otherwise the path is some '/', an element
\* without '/', and, when anything follows, at least one '/' and a rest that
\* does not start with '/': the rest is returned, the first min(len, DIR_SIZ)
\* bytes of name are those of the element, name[len] is NUL when
\* len < DIR_SIZ; "a/bb/c" gives "a" and "bb/c", "///a//bb" "a" and "bb".
C32_SkipElemSplitsPath ==
    fs.call.op = "skip_elem" =>
        LET p == fs.call.arg.path
            r == fs.call.ret
            n == Len(p)
        IN  /\ r.null <=> \A i \in 1..n : p[i] = 47
            /\ ~r.null =>
                  \E i \in 0..n : \E j \in (i + 1)..n : \E k \in j..n :
                      /\ \A x \in 1..i : p[x] = 47
                      /\ \A x \in (i + 1)..j : p[x] # 47
                      /\ \A x \in (j + 1)..k : p[x] = 47
                      /\ j = n \/ k > j
                      /\ k = n \/ p[k + 1] # 47
                      /\ r.path = SubSeq(p, k + 1, n)
                      /\ \A x \in 0..(DIR_SIZ - 1) :
                             x < j - i => r.name[x] = p[i + 1 + x]
                      /\ j - i < DIR_SIZ => r.name[j - i] = 0
            /\ p = <<97, 47, 98, 98, 47, 99>> =>
                  /\ r.path = <<98, 98, 47, 99>>
                  /\ r.name[0] = 97 /\ r.name[1] = 0
C32_SkippedRepeatedSlashes ==
    /\ fs.call.op = "skip_elem"
    /\ fs.call.arg.path = <<47, 47, 47, 97, 47, 47, 98, 98>>
    /\ fs.call.arg.name[1] = 120
    /\ fs.call.ret.path = <<98, 98>>
    /\ fs.call.ret.name[0] = 97 /\ fs.call.ret.name[1] = 0

\* C40: in every reachable state 0 <= nwrite - nread <= PIPE_SIZE and no call
\* has halted the kernel; a write with the read end closed returned
\* BrokenPipe; with the read end open and fewer than n bytes of room it
\* returned TryAgain and left the pipe as it was; otherwise it returned Ok(n)
\* and all n bytes are in the pipe; the bytes a read returned are the next
\* bytes written that no read had returned before, in the order written.
C40_BoundedFifo ==
    /\ panicked = ""
    /\ ~gt_u32(pipe.p.nread, pipe.p.nwrite)
    /\ ~gt_u32(pipe.p.nwrite, sum_u32(pipe.p.nread, PIPE_SIZE))
    /\ pipe.p.nwrite = sum_u32(pipe.p.nread, pipe.gw - pipe.gr)
    /\ pipe.last.op = "write" =>
           IF ~pipe.last.ro0 THEN pipe.last.err = "BrokenPipe" /\ pipe.last.same
           ELSE IF PIPE_SIZE - pipe.last.unread0 < pipe.last.n
           THEN pipe.last.err = "TryAgain" /\ pipe.last.same
           ELSE /\ pipe.last.err = "" /\ pipe.last.ret = pipe.last.n
                /\ pipe.gw - pipe.gr = pipe.last.unread0 + pipe.last.n
    /\ pipe.last.op = "read" /\ pipe.last.err = "" =>
           /\ pipe.last.ret = Len(pipe.last.out)
           /\ pipe.last.ret <= pipe.last.unread0
           /\ \A i \in 1..pipe.last.ret : pipe.last.out[i] = PipeSrc(pipe.last.gr0 + i - 1)

\* C31: File::write(addr, n) on an inode file at offset off returns Ok(n) and
\* leaves the offset at off + n; it makes ceil(n / max) transactions, the
\* k-th (from 0) being begin_op, one writei of min(max, n - k * max) bytes
\* from source position k * max to file offset off + k * max, and end_op,
\* after which outstanding is what it was.
C31_FileWriteChunks ==
    fs.call.op = "File::write" =>
        LET n == fs.call.arg.n
            off == fs.call.arg.off
            chunks == (n + FileWriteMax - 1) \div FileWriteMax
            len(k) == IF n - k * FileWriteMax > FileWriteMax THEN FileWriteMax
                      ELSE n - k * FileWriteMax
        IN  /\ panicked = ""
            /\ fs.call.ret = n
            /\ fs.file.off = off + n
            /\ log.outstanding = fs.call.n0
            /\ Len(fs.call.seen1) = 3 * chunks
            /\ \A k \in 0..(chunks - 1) :
                   /\ fs.call.seen1[3 * k + 1] = <<"begin_op">>
                   /\ fs.call.seen1[3 * k + 2] =
                          <<"writei", k * FileWriteMax, off + k * FileWriteMax, len(k)>>
                   /\ fs.call.seen1[3 * k + 3] = <<"end_op">>

\* C33: inside a transaction a change recorded with log_write is seen by the
\* reads that follow it before the commit: ilock of the inode ialloc just
\* returned loads the type, major and minor given to ialloc with nlink 1,
\* and readi of the range writei just wrote returns the bytes written.
C33_ReadsSeeLoggedWrites ==
    /\ fs.call.op = "ialloc" =>
           /\ panicked = ""
           /\ fs.call.ino1.valid
           /\ fs.call.ino1.typ = fs.call.arg.typ
           /\ fs.call.ino1.major = fs.call.arg.major
           /\ fs.call.ino1.minor = fs.call.arg.minor
           /\ fs.call.ino1.nlink = 1
    /\ fs.call.op = "writei_readi" /\ panicked = "" /\ fs.call.n0 = fs.call.arg.n =>
           /\ fs.call.ret.n = fs.call.arg.n
           /\ fs.call.ret.dst = Src(fs.call.arg.n)

\* C35: iput of the last handle to a loaded inode with nlink 0 returns, for
\* every file size including files with an indirect block, and when it has
\* returned every block of the file, the indirect block included, is free
\* in the bitmap, every addr of the inode is 0 and its size is 0.
C35_IputFreesFile ==
    /\ [](fs.call.op = "iput" /\ fs.call.ret = 1 =>
              /\ panicked = ""
              /\ fs.call.bits1 \cap TruncBlocks(fs.call.ino0.size \div BLK_SIZE) = {}
              /\ \A i \in 0..NDIRECT : fs.call.ino1.addrs[i] = 0
              /\ fs.call.ino1.size = 0)
    /\ (fs.call.op = "iput" /\ fs.call.ret = 0) ~> (fs.call.op = "iput" /\ fs.call.ret = 1)

\* C38: unlink of a directory that holds an in-use entry other than "." and
\* ".." returns an error and leaves the entries of the parent directory and
\* the link counts of both directories as they were; unlink of a directory
\* with no such entry succeeds.
C38_UnlinkOnlyEmptyDirs ==
    fs.call.op = "unlink" /\ fs.call.arg = PathD /\ fs.call.bits0.typ = "Dir" =>
        /\ panicked = ""
        /\ IF \E e \in fs.call.bits0.d : e[1] >= 2
           THEN /\ ~fs.call.ret.ok
                /\ fs.call.bits1.root = fs.call.bits0.root
                /\ fs.call.bits1.nlink = fs.call.bits0.nlink
           ELSE fs.call.ret.ok

\* C34: each of open, mkdir, mknod, link, unlink and chdir calls end_op
\* exactly once for its begin_op on every path on which it returns:
\* outstanding never goes below zero (the subtraction never overflows) and
\* is back at its value of before the call when the call returns.
C34_EndOpOncePerBeginOp ==
    fs.call.op \in {"open", "mkdir", "mknod", "link", "unlink", "chdir"} =>
        /\ panicked # "attempt to subtract with overflow"
        /\ panicked = "" =>
               /\ Cardinality({i \in DOMAIN fs.call.seen1 : fs.call.seen1[i] = <<"end_op">>})
                      = Cardinality({i \in DOMAIN fs.call.seen1 :
                                         fs.call.seen1[i] = <<"begin_op">>})
               /\ log.outstanding >= 0
               /\ log.outstanding = fs.call.n0

\* C39: with log.size = LOG_SIZE and every admitted operation logging at
\* most MAX_OP_BLOCKS distinct blocks, no log_write halts with 'too big a
\* transaction'.
C39_AdmittedOpsFit ==
    /\ log.size \in {0, LOG_SIZE}
    /\ \A k \in 0..(LOG_SIZE \div MAX_OP_BLOCKS - 1) :
           Cardinality(OpLogged(k)) <= MAX_OP_BLOCKS
    /\ panicked # "too big a transaction"

\* C36: in no reachable state does one call path hold the BUF_CACHE lock
\* and wait for the INODE_CACHE lock while another holds the INODE_CACHE
\* lock and waits for the BUF_CACHE lock, whatever the interleaving of
\* ialloc, iget, ilock, iupdate and iput.
C36_NoCacheLockCycle ==
    ~ \E p \in Procs : \E q \in Procs \ {p} :
          /\ bcLock = p /\ pc[p] = "ialloc_iget"
          /\ calls.icLock = q /\ pc[q] = "iput_itrunc"

\* C37: every log_write is made by a call path between its begin_op and
\* its end_op, and while end_op holds the LOG lock and runs commit no
\* other call path holds the BUF_CACHE lock at log_write, where it waits
\* for the LOG lock.
C37_NoLogBufCycle ==
    /\ \A p \in Procs : pc[p] \in {"modified", "logged"} => calls.call[p] = "write"
    /\ ~ \E q \in Procs : \E p \in Procs \ {q} :
           /\ logLock = q /\ pc[q] = "commit"
           /\ bcLock = p /\ pc[p] = "modified"

====
